---- MODULE Spec2Model ----
(***************************************************************************)
(* The data synchronisation engine of utah-watchdog: the generic ETL       *)
(* driver (src/ingestion/base.py), its source fetchers, the normaliser     *)
(* (src/database/normalization.py) and the seat-invalidating load of the   *)
(* legislator sync (src/ingestion/congress_members.py).                    *)
(*                                                                         *)
(* A MongoDB collection is a set of documents (records).  Python's None is *)
(* NoneStr for string-valued fields and NoneInt for integer-valued ones.   *)
(* datetime.utcnow() is abstracted to the logical clock `clock`, which     *)
(* ticks once per run.                                                     *)
(***************************************************************************)
EXTENDS Integers, Sequences, FiniteSets, TLC

(* ------------------------------ bounds --------------------------------- *)
\* number of distinct bioguide ids the sources can mention
NumBio == 2
\* items a fetcher may yield during one run
MaxItems == 2
\* runs of ingesters in one behaviour
MaxRuns == 2
\* non-empty pages a paginated source serves per fetch loop
MaxPages == 1
\* distinct natural keys (bill numbers, roll numbers, FEC sub ids)
NumKeys == 2
\* member positions carried by one roll call
MaxMemberVotes == 1
\* items an earlier sync has left in the store before two syncs are compared
MaxSeeds == 1
\* names a --skip list may carry
MaxSkip == 1
\* pipelines whose run function raises during one call of the orchestrator
MaxFailures == 2
\* roll calls ingested one after another into one store
MaxIngests == 2
\* recorded votes the clerk's XML of one roll call may list
MaxFeedVotes == 2
\* non-empty pages the bill source holds
MaxBillPages == 2
\* largest page size (limit_per_request) of the bill fetcher
MaxLimit == 2
\* largest max_bills argument of the bill fetcher
MaxBillLimit == 3
\* loads of the member, committee and contact pipelines on one store
MaxEnrichSteps == 3

(* --------------------------- Python's None ----------------------------- *)
NoneStr == "None"
NoneInt == 0 - 1

BioIds == 1..NumBio

(* ---------------------------- constants.py ----------------------------- *)
US_STATES ==
    << "AL", "AK", "AZ", "AR", "CA", "CO", "CT", "DE", "FL", "GA",
       "HI", "ID", "IL", "IN", "IA", "KS", "KY", "LA", "ME", "MD",
       "MA", "MI", "MN", "MS", "MO", "MT", "NE", "NV", "NH", "NJ",
       "NM", "NY", "NC", "ND", "OH", "OK", "OR", "PA", "RI", "SC",
       "SD", "TN", "TX", "UT", "VT", "VA", "WA", "WV", "WI", "WY",
       "AS", "DC", "GU", "MP", "PR", "VI" >>

(* --------------------------- normalization.py -------------------------- *)
\* the codes of STATE_NAME_TO_CODE, i.e. the keys of STATE_CODE_TO_NAME
STATE_CODE_TO_NAME ==
    { "AL", "AK", "AZ", "AR", "CA", "CO", "CT", "DE", "FL", "GA", "HI", "ID",
      "IL", "IN", "IA", "KS", "KY", "LA", "ME", "MD", "MA", "MI", "MN", "MS",
      "MO", "MT", "NE", "NV", "NH", "NJ", "NM", "NY", "NC", "ND", "OH", "OK",
      "OR", "PA", "RI", "SC", "SD", "TN", "TX", "UT", "VT", "VA", "WA", "WV",
      "WI", "WY", "DC", "PR" }

\* the entries of STATE_NAME_TO_CODE, in the order of the dict
STATE_NAME_TO_CODE ==
    << <<"Alabama", "AL">>, <<"Alaska", "AK">>, <<"Arizona", "AZ">>,
       <<"Arkansas", "AR">>, <<"California", "CA">>, <<"Colorado", "CO">>,
       <<"Connecticut", "CT">>, <<"Delaware", "DE">>, <<"Florida", "FL">>,
       <<"Georgia", "GA">>, <<"Hawaii", "HI">>, <<"Idaho", "ID">>,
       <<"Illinois", "IL">>, <<"Indiana", "IN">>, <<"Iowa", "IA">>,
       <<"Kansas", "KS">>, <<"Kentucky", "KY">>, <<"Louisiana", "LA">>,
       <<"Maine", "ME">>, <<"Maryland", "MD">>, <<"Massachusetts", "MA">>,
       <<"Michigan", "MI">>, <<"Minnesota", "MN">>, <<"Mississippi", "MS">>,
       <<"Missouri", "MO">>, <<"Montana", "MT">>, <<"Nebraska", "NE">>,
       <<"Nevada", "NV">>, <<"New Hampshire", "NH">>, <<"New Jersey", "NJ">>,
       <<"New Mexico", "NM">>, <<"New York", "NY">>,
       <<"North Carolina", "NC">>, <<"North Dakota", "ND">>,
       <<"Ohio", "OH">>, <<"Oklahoma", "OK">>, <<"Oregon", "OR">>,
       <<"Pennsylvania", "PA">>, <<"Rhode Island", "RI">>,
       <<"South Carolina", "SC">>, <<"South Dakota", "SD">>,
       <<"Tennessee", "TN">>, <<"Texas", "TX">>, <<"Utah", "UT">>,
       <<"Vermont", "VT">>, <<"Virginia", "VA">>, <<"Washington", "WA">>,
       <<"West Virginia", "WV">>, <<"Wisconsin", "WI">>, <<"Wyoming", "WY">>,
       <<"District of Columbia", "DC">>, <<"Puerto Rico", "PR">> >>

\* str.strip() on the strings the normalisers are applied to: the strings
\* not listed carry no leading or trailing whitespace
Strip(s) ==
    CASE s = " " -> ""  [] s = " House " -> "House"  [] s = " UT " -> "UT"
      [] s = " Utah " -> "Utah"  [] s = " R " -> "R"
      [] s = " vetoed " -> "vetoed"
      [] OTHER -> s

\* str.lower() likewise: the strings not listed hold no upper-case letter
Lower(s) ==
    CASE s = "Senate" -> "senate"  [] s = "House" -> "house"
      [] s = "House of Representatives" -> "house of representatives"
      [] s = "SENATE" -> "senate"  [] s = "HOUSE" -> "house"
      [] s = "SeNaTe" -> "senate"  [] s = "Assembly" -> "assembly"
      [] s = "Alabama" -> "alabama"  [] s = "Alaska" -> "alaska"
      [] s = "Arizona" -> "arizona"  [] s = "Arkansas" -> "arkansas"
      [] s = "California" -> "california"  [] s = "Colorado" -> "colorado"
      [] s = "Connecticut" -> "connecticut"  [] s = "Delaware" -> "delaware"
      [] s = "Florida" -> "florida"  [] s = "Georgia" -> "georgia"
      [] s = "Hawaii" -> "hawaii"  [] s = "Idaho" -> "idaho"
      [] s = "Illinois" -> "illinois"  [] s = "Indiana" -> "indiana"
      [] s = "Iowa" -> "iowa"  [] s = "Kansas" -> "kansas"
      [] s = "Kentucky" -> "kentucky"  [] s = "Louisiana" -> "louisiana"
      [] s = "Maine" -> "maine"  [] s = "Maryland" -> "maryland"
      [] s = "Massachusetts" -> "massachusetts"
      [] s = "Michigan" -> "michigan"  [] s = "Minnesota" -> "minnesota"
      [] s = "Mississippi" -> "mississippi"  [] s = "Missouri" -> "missouri"
      [] s = "Montana" -> "montana"  [] s = "Nebraska" -> "nebraska"
      [] s = "Nevada" -> "nevada"  [] s = "New Hampshire" -> "new hampshire"
      [] s = "New Jersey" -> "new jersey"
      [] s = "New Mexico" -> "new mexico"  [] s = "New York" -> "new york"
      [] s = "North Carolina" -> "north carolina"
      [] s = "North Dakota" -> "north dakota"  [] s = "Ohio" -> "ohio"
      [] s = "Oklahoma" -> "oklahoma"  [] s = "Oregon" -> "oregon"
      [] s = "Pennsylvania" -> "pennsylvania"
      [] s = "Rhode Island" -> "rhode island"
      [] s = "South Carolina" -> "south carolina"
      [] s = "South Dakota" -> "south dakota"
      [] s = "Tennessee" -> "tennessee"  [] s = "Texas" -> "texas"
      [] s = "Utah" -> "utah"  [] s = "Vermont" -> "vermont"
      [] s = "Virginia" -> "virginia"  [] s = "Washington" -> "washington"
      [] s = "West Virginia" -> "west virginia"
      [] s = "Wisconsin" -> "wisconsin"  [] s = "Wyoming" -> "wyoming"
      [] s = "District of Columbia" -> "district of columbia"
      [] s = "Puerto Rico" -> "puerto rico"  [] s = "UTAH" -> "utah"
      [] s = "U" -> "u"  [] s = "Republican" -> "republican"
      [] s = "Democrat" -> "democrat"  [] s = "Democratic" -> "democratic"
      [] s = "Independent" -> "independent"
      [] s = "Libertarian" -> "libertarian"  [] s = "Green" -> "green"
      [] s = "R" -> "r"  [] s = "D" -> "d"  [] s = "I" -> "i"
      [] s = "L" -> "l"  [] s = "G" -> "g"  [] s = "O" -> "o"
      [] s = "Unknown" -> "unknown"  [] s = "Whig" -> "whig"
      [] s = "Intro" -> "intro"  [] s = "Enacted" -> "enacted"
      [] s = "Became Law" -> "became law"
      [] s = "Passed House" -> "passed house"
      [] s = "In Committee" -> "in committee"
      [] s = "Referred" -> "referred"
      [] OTHER -> s

\* str.upper() likewise, on the 2-character strings: those not listed hold
\* no lower-case letter
Upper(s) ==
    CASE s = "ut" -> "UT"
      [] OTHER -> s

\* str.replace(" ", "_") likewise
SpacesToUnderscores(s) ==
    CASE s = "became law" -> "became_law"
      [] s = "passed house" -> "passed_house"
      [] s = "in committee" -> "in_committee"
      [] OTHER -> s

\* str.replace("-", "_") likewise
HyphensToUnderscores(s) ==
    CASE s = "became-law" -> "became_law"  [] s = "-" -> "_"
      [] OTHER -> s

\* the first entry of STATE_NAME_TO_CODE whose name is state_clean, in any
\* case (the direct lookup, then the case-insensitive loop)
NamedState(state_clean) ==
    LET named == { i \in DOMAIN STATE_NAME_TO_CODE :
                     STATE_NAME_TO_CODE[i][1] = state_clean }
        anycase == { i \in DOMAIN STATE_NAME_TO_CODE :
                       Lower(STATE_NAME_TO_CODE[i][1]) = Lower(state_clean) }
    IN  IF named # {} THEN STATE_NAME_TO_CODE[CHOOSE i \in named : TRUE][2]
        ELSE IF anycase # {}
             THEN STATE_NAME_TO_CODE[CHOOSE i \in anycase :
                                        \A j \in anycase : i <= j][2]
             ELSE NoneStr

normalize_state(state) ==
    IF state = NoneStr \/ state = "" THEN NoneStr
    ELSE IF Len(Strip(state)) = 2
         THEN IF Upper(Strip(state)) \in STATE_CODE_TO_NAME
              THEN Upper(Strip(state)) ELSE NoneStr
         ELSE NamedState(Strip(state))

PARTY_MAPPINGS ==
    [ p \in {"Republican", "Democrat", "Democratic", "Independent",
             "Libertarian", "Green", "R", "D", "I", "L", "G"} |->
        CASE p \in {"Republican", "R"} -> "R"
          [] p \in {"Democrat", "Democratic", "D"} -> "D"
          [] p \in {"Independent", "I"} -> "I"
          [] p \in {"Libertarian", "L"} -> "L"
          [] p \in {"Green", "G"} -> "G" ]

\* normalize_party with its default "I": the direct lookup, the
\* case-insensitive lookup, else the default (for the listed unknown values
\* and, after a warning, for any other)
normalize_party(party) ==
    IF party = NoneStr \/ party = "" THEN "I"
    ELSE LET party_clean == Strip(party)
             anycase == { k \in DOMAIN PARTY_MAPPINGS :
                            Lower(k) = Lower(party_clean) }
         IN  IF party_clean \in DOMAIN PARTY_MAPPINGS
             THEN PARTY_MAPPINGS[party_clean]
             ELSE IF anycase # {} THEN PARTY_MAPPINGS[CHOOSE k \in anycase : TRUE]
             ELSE "I"

CHAMBER_MAPPINGS ==
    [ c \in {"Senate", "House", "House of Representatives", "senate", "house",
             "SENATE", "HOUSE"} |->
        IF c \in {"Senate", "senate", "SENATE"} THEN "senate" ELSE "house" ]

normalize_chamber(chamber) ==
    IF chamber = NoneStr \/ chamber = "" THEN NoneStr
    ELSE LET chamber_clean == Strip(chamber)
             anycase == { k \in DOMAIN CHAMBER_MAPPINGS :
                            Lower(k) = Lower(chamber_clean) }
         IN  IF chamber_clean \in DOMAIN CHAMBER_MAPPINGS
             THEN CHAMBER_MAPPINGS[chamber_clean]
             ELSE IF anycase # {} THEN CHAMBER_MAPPINGS[CHOOSE k \in anycase : TRUE]
             ELSE NoneStr

\* the status_map of normalize_bill_status
status_map ==
    [ s \in {"intro", "in_committee", "passed_house", "passed_senate",
             "became_law", "enacted", "vetoed"} |->
        CASE s = "intro" -> "introduced"
          [] s = "enacted" -> "became_law"
          [] OTHER -> s ]

normalize_bill_status(status) ==
    IF status = NoneStr \/ status = "" THEN NoneStr
    ELSE LET normalized ==
                 HyphensToUnderscores(SpacesToUnderscores(Strip(Lower(status))))
         IN  IF normalized \in DOMAIN status_map THEN status_map[normalized]
             ELSE normalized

\* normalize_politician stamping last_updated whether or not the key is there
normalize_politician_restamping(raw_data, now) ==
    [ k \in (DOMAIN raw_data) \cup {"last_updated", "in_office"} |->
        IF k = "last_updated" THEN now
        ELSE IF k \in DOMAIN raw_data
        THEN CASE k = "state" -> normalize_state(raw_data[k])
               [] k = "party" -> normalize_party(raw_data[k])
               [] k = "chamber" -> normalize_chamber(raw_data[k])
               [] OTHER -> raw_data[k]
        ELSE TRUE ]

\* normalize_politician on a dict: state, party and chamber are normalised
\* where present, last_updated and in_office are set where absent, every
\* other key is copied
normalize_politician(raw_data, now) ==
    [ k \in (DOMAIN raw_data) \cup {"last_updated", "in_office"} |->
        IF k \in DOMAIN raw_data
        THEN CASE k = "state" -> normalize_state(raw_data[k])
               [] k = "party" -> normalize_party(raw_data[k])
               [] k = "chamber" -> normalize_chamber(raw_data[k])
               [] OTHER -> raw_data[k]
        ELSE IF k = "last_updated" THEN now ELSE TRUE ]

normalize_contribution(raw_data, now) ==
    [ k \in (DOMAIN raw_data) \cup {"last_updated"} |->
        IF k \in DOMAIN raw_data
        THEN IF k = "contributor_state" THEN normalize_state(raw_data[k])
             ELSE raw_data[k]
        ELSE now ]

normalize_legislation(raw_data, now) ==
    [ k \in (DOMAIN raw_data) \cup {"last_updated"} |->
        IF k \in DOMAIN raw_data
        THEN IF k = "status" THEN normalize_bill_status(raw_data[k])
             ELSE raw_data[k]
        ELSE now ]

(* --------------------------- MongoDB operations ------------------------ *)
\* the effect of {"$set": fields} on document d
SetFields(d, fields) ==
    [ k \in (DOMAIN d) \cup (DOMAIN fields) |->
        IF k \in DOMAIN fields THEN fields[k] ELSE d[k] ]

\* collection.update_many(filter, {"$set": fields})
\* on the documents `matched` of coll that satisfy the filter
update_many(coll, matched, fields) ==
    { IF d \in matched THEN SetFields(d, fields) ELSE d : d \in coll }

\* collection.update_one(filter, {"$set": fields}, upsert=...): the first
\* matching document is updated; with upsert and no match, the document made
\* of the filter's equality fields and the $set fields is inserted
update_one(coll, matched, keyFields, fields, upsert) ==
    IF matched # {}
    THEN LET t == CHOOSE d \in matched : TRUE
         IN  (coll \ {t}) \cup {SetFields(t, fields)}
    ELSE IF upsert THEN coll \cup {SetFields(keyFields, fields)} ELSE coll

\* result.upserted_id is not None
upserted(matched) == matched = {}

(* ------------------- congress_members.py: transform -------------------- *)
\* bool(x) of an optional integer
Truthy(n) == n # NoneInt /\ n # 0

\* Party enum chosen from partyName
PartyOf(party_name) ==
    CASE party_name = "Republican" -> "R"
      [] party_name \in {"Democrat", "Democratic"} -> "D"
      [] party_name = "Independent" -> "I"
      [] OTHER -> "O"

\* transform raises: ValueError for a missing bioguideId, pydantic's
\* ValidationError for a state that is not two characters long
members_transform_raises(raw) ==
    \/ raw.bioguideId = NoneInt
    \/ raw.state_code = NoneStr
    \/ Len(raw.state_code) # 2

\* the Politician a raw member becomes (name, website and phone carry no
\* behaviour of their own and are left out of the record)
members_transform(raw, now) ==
    LET chamber == IF Lower(raw.chamber) = "senate" THEN "senate" ELSE "house"
        district == IF chamber = "senate" THEN NoneInt
                    ELSE IF Truthy(raw.district) THEN raw.district ELSE NoneInt
    IN  [ bioguide_id |-> raw.bioguideId,
          party |-> PartyOf(raw.partyName),
          state |-> raw.state_code,
          chamber |-> chamber,
          district |-> district,
          title |-> IF chamber = "senate" THEN "Senator" ELSE "Representative",
          in_office |-> TRUE,
          office |-> NoneStr,
          committees |-> {},
          last_updated |-> now ]

(* ---------------------- congress_members.py: load ---------------------- *)
\* the seat query without its district term
SeatQueryAnyDistrict(politician, d) ==
    /\ d.state = politician.state
    /\ d.chamber = "house"
    /\ d.in_office = TRUE
    /\ d.bioguide_id # politician.bioguide_id

\* the seat query without its {"$ne": bioguide_id} term
SeatQueryOwnIncluded(politician, d) ==
    /\ d.state = politician.state
    /\ d.district = politician.district
    /\ d.chamber = "house"
    /\ d.in_office = TRUE

\* the filter of the invalidating update_many
SeatQuery(politician, d) ==
    /\ d.state = politician.state
    /\ d.district = politician.district
    /\ d.chamber = "house"
    /\ d.in_office = TRUE
    /\ d.bioguide_id # politician.bioguide_id

\* the invalidating update_many without the test of the incoming chamber
InvalidateSeatAnyChamber(coll, politician, now) ==
    update_many(coll, { d \in coll : SeatQuery(politician, d) },
                [in_office |-> FALSE, last_updated |-> now])

\* first store operation of load: mark the old occupant as out of office
\* (House only)
InvalidateSeat(coll, politician, now) ==
    IF politician.chamber = "house"
    THEN update_many(coll, { d \in coll : SeatQuery(politician, d) },
                     [in_office |-> FALSE, last_updated |-> now])
    ELSE coll

\* the bioguide ids of the records the update_many modifies
\* (update_result.modified_count)
Flagged(coll, politician) ==
    IF politician.chamber = "house"
    THEN { d.bioguide_id : d \in { x \in coll : SeatQuery(politician, x) } }
    ELSE {}

\* a filter on the source's field name, which no stored record carries
ByBioguideRawName(id, d) == "bioguideId" \in DOMAIN d /\ d.bioguideId = id

ByBioguide(id, d) == d.bioguide_id = id

\* second store operation of load: the upsert of the normalised record
UpsertPolitician(coll, politician, now) ==
    update_one(coll, { d \in coll : ByBioguide(politician.bioguide_id, d) },
               [bioguide_id |-> politician.bioguide_id],
               normalize_politician(politician, now), TRUE)

\* load as one call; wfail names the store operation that raises, if any
Upserting(flagged, politician, now, wfail) ==
    [ coll |-> IF wfail = "update_one" THEN flagged
               ELSE UpsertPolitician(flagged, politician, now),
      raised |-> wfail = "update_one",
      was_insert |-> upserted({ d \in flagged :
                                  ByBioguide(politician.bioguide_id, d) }) ]

members_load(coll, politician, now, wfail) ==
    IF wfail = "update_many" /\ politician.chamber = "house"
    THEN [ coll |-> coll, raised |-> TRUE, was_insert |-> FALSE ]
    ELSE Upserting(InvalidateSeat(coll, politician, now), politician, now, wfail)

(* ------------------- the other ingesters: transform -------------------- *)
Keys == 1..NumKeys

\* congress_bills.py transform: bill_id is {type}-{number}-{congress}; type
\* and congress are fixed during a run, so the number stands for the id.
\* int(number) raises TypeError when the number is missing.
bills_transform_raises(raw) == raw.number = NoneInt

bills_transform(raw, now) ==
    [ bill_id |-> raw.number, title |-> raw.title, last_updated |-> now ]

\* votes.py transform: vote_id = f"house-roll-{roll_number}-{congress}" (the
\* session is not part of it); int(roll_number) raises when it is missing
vote_id_of(raw) == raw.rollCallNumber

votes_transform_raises(raw) == raw.rollCallNumber = NoneInt

votes_transform(raw, now) ==
    [ vote_id |-> vote_id_of(raw), session |-> raw.sessionNumber,
      result |-> raw.result, last_updated |-> now ]

\* fec.py transform: datetime.fromisoformat raises ValueError on a malformed
\* contribution_receipt_date
fec_transform_raises(raw) == raw.contribution_receipt_date = "bad"

fec_transform(raw, now) ==
    [ id |-> raw.sub_id, amount |-> raw.contribution_receipt_amount,
      last_updated |-> now ]

\* contact_info.py transform
contact_transform_raises(raw) == raw.bioguide = NoneInt

contact_transform(raw) == [ bioguide_id |-> raw.bioguide, office |-> raw.address ]

(* --------------------- the other ingesters: load ----------------------- *)
\* load of bills, votes and contributions: one upsert by the natural key
bills_load(coll, bill, wfail) ==
    [ coll |-> IF wfail = "update_one" THEN coll
               ELSE update_one(coll, { d \in coll : d.bill_id = bill.bill_id },
                               [bill_id |-> bill.bill_id], bill, TRUE),
      raised |-> wfail = "update_one",
      was_insert |-> upserted({ d \in coll : d.bill_id = bill.bill_id }) ]

votes_load(coll, vote, wfail) ==
    [ coll |-> IF wfail = "update_one" THEN coll
               ELSE update_one(coll, { d \in coll : d.vote_id = vote.vote_id },
                               [vote_id |-> vote.vote_id], vote, TRUE),
      raised |-> wfail = "update_one",
      was_insert |-> upserted({ d \in coll : d.vote_id = vote.vote_id }) ]

fec_load(coll, contribution, wfail) ==
    [ coll |-> IF wfail = "update_one" THEN coll
               ELSE update_one(coll, { d \in coll : d.id = contribution.id },
                               [id |-> contribution.id], contribution, TRUE),
      raised |-> wfail = "update_one",
      was_insert |-> upserted({ d \in coll : d.id = contribution.id }) ]

\* the contact update issued with upsert=True
contact_load_upserting(coll, contact_info, now, wfail) ==
    LET has_fields == contact_info.office # NoneStr
        fields == [office |-> contact_info.office, last_updated |-> now]
        matched == { d \in coll : ByBioguide(contact_info.bioguide_id, d) }
        after == update_one(coll, matched, [bioguide_id |-> contact_info.bioguide_id],
                            fields, TRUE)
        raised == has_fields /\ wfail = "update_one"
    IN  [ coll |-> IF has_fields /\ ~raised THEN after ELSE coll,
          raised |-> raised,
          was_insert |-> has_fields /\ ~raised /\ after # coll ]

\* contact_info.py load: an update without upsert of the non-None contact
\* fields; its result says whether a record was modified
contact_load(coll, contact_info, now, wfail) ==
    LET has_fields == contact_info.office # NoneStr
        fields == [office |-> contact_info.office, last_updated |-> now]
        matched == { d \in coll : ByBioguide(contact_info.bioguide_id, d) }
        after == update_one(coll, matched, [bioguide_id |-> contact_info.bioguide_id],
                            fields, FALSE)
        raised == has_fields /\ wfail = "update_one"
    IN  [ coll |-> IF has_fields /\ ~raised THEN after ELSE coll,
          raised |-> raised,
          was_insert |-> has_fields /\ ~raised /\ after # coll ]

RECURSIVE save_positions(_, _, _, _, _)
RECURSIVE save_positions_inserting(_, _, _, _, _)

\* the positions written with insert_one instead of the keyed upsert
save_positions_inserting(coll, vote_id, member_votes, i, pfail) ==
    IF i > Len(member_votes) \/ i = pfail THEN coll
    ELSE save_positions_inserting(
             coll \cup {[ vote_id |-> vote_id, bioguide_id |-> member_votes[i].bioguideId,
                          position |-> member_votes[i].voteCast ]},
             vote_id, member_votes, i + 1, pfail)

\* votes.py _save_member_positions: one upsert per member vote that carries
\* an id and a position, in list order; the pfail-th write raises (0: none)
save_positions(coll, vote_id, member_votes, i, pfail) ==
    IF i > Len(member_votes) \/ i = pfail THEN coll
    ELSE LET mv == member_votes[i]
             pv == [ vote_id |-> vote_id, bioguide_id |-> mv.bioguideId,
                     position |-> mv.voteCast ]
             matched == { d \in coll : d.vote_id = vote_id
                                      /\ d.bioguide_id = mv.bioguideId }
             next == IF mv.bioguideId = NoneInt \/ mv.voteCast = NoneStr THEN coll
                     ELSE update_one(coll, matched,
                                     [vote_id |-> vote_id, bioguide_id |-> mv.bioguideId],
                                     pv, TRUE)
         IN  save_positions(next, vote_id, member_votes, i + 1, pfail)

save_member_positions(coll, raw_vote, pfail) ==
    [ coll |-> save_positions(coll, vote_id_of(raw_vote), raw_vote.memberVotes, 1, pfail),
      raised |-> /\ pfail \in 1..Len(raw_vote.memberVotes)
                 /\ raw_vote.memberVotes[pfail].bioguideId # NoneInt
                 /\ raw_vote.memberVotes[pfail].voteCast # NoneStr ]

(* ------------------------------- state --------------------------------- *)
VARIABLES
    mongo,      \* the database: one set of documents per collection
    kind,       \* the class of the ingester instance ("none": no instance)
    pc,         \* where the instance's run() is
    stats,      \* self.stats
    db,         \* self.db is not None
    client,     \* self.client: "none", "open" or "closed"
    clock,      \* datetime.utcnow(), one tick per run
    fetch,      \* the position of the fetch_data generator
    cur,        \* the raw item the generator has yielded to process_item
                \* (the normaliser's argument; run_all_pipelines' arguments)
    outcome,    \* how the last run() call ended (the normaliser's result)
    hist,       \* what happened during the run (never read by the program)
    script,     \* replayed source items (two-run specification); the
                \* resolved pipeline order (orchestrator)
    snap,       \* the database after the first of the two runs (the first
                \* normalisation's result; all_stats of the orchestrator)
    wk          \* the concurrent loads (concurrent specification)

vars == << mongo, kind, pc, stats, db, client, clock, fetch, cur, outcome,
           hist, script, snap, wk >>

Kinds == {"members", "bills", "votes", "fec", "contact"}

\* the list the member fetcher iterates: a state of the normaliser's table
\* and a territory that is in US_STATES only
Fetched(c) == c \in {"UT", "GU"}

states_to_fetch == SelectSeq(US_STATES, Fetched)

RawParties == {"Republican"}

RawMembers(state_code) ==
    [ bioguideId : BioIds \cup {NoneInt},
      chamber : {"Senate", "House of Representatives", ""},
      district : {NoneInt, 0, 1},
      partyName : RawParties,
      state_code : {state_code} ]

RawBills == [ number : Keys \cup {NoneInt}, title : {"An Act"} ]

\* the roll calls and the members the clerk's feed mentions
RollNumbers == {1}

MemberVotes == [ bioguideId : {1}, voteCast : {"Aye"} ]

RECURSIVE SeqsUpTo(_, _)
SeqsUpTo(S, n) ==
    IF n = 0 THEN { << >> }
    ELSE SeqsUpTo(S, n - 1) \cup
         { Append(q, x) : q \in { r \in SeqsUpTo(S, n - 1) : Len(r) = n - 1 }, x \in S }

RawVotes(session) ==
    [ rollCallNumber : RollNumbers \cup {NoneInt},
      sessionNumber : {session},
      result : {"Passed"},
      memberVotes : SeqsUpTo(MemberVotes, MaxMemberVotes) ]

RawContributions ==
    [ sub_id : Keys,
      contribution_receipt_date : {"2024-03-15", "bad"},
      contribution_receipt_amount : {100} ]

RawContacts == [ bioguide : BioIds \cup {NoneInt}, address : {NoneStr, "Office A"} ]

NoItem == [ none |-> TRUE ]

EmptyMongo ==
    [ politicians |-> {}, legislation |-> {}, votes |-> {},
      politician_votes |-> {}, contributions |-> {} ]

\* BaseIngester.__init__ / reset_stats
ZeroStats ==
    [ processed |-> 0, inserted |-> 0, updated |-> 0, errors |-> 0,
      started_at |-> NoneInt, completed_at |-> NoneInt ]

NoFetch == [ stage |-> "ended", loop |-> 0, page |-> 0, left |-> 0, more |-> FALSE,
             chamber |-> "house" ]

\* the run's history: items yielded, transform / load / position-write
\* exceptions, load calls, whether the fetcher counted an error, the yield
\* count at the first failing page request, how the try block ended, the
\* counters the run started with, the last politician loaded with the ids
\* its update_many matched, (orchestrator) the pipelines whose run
\* function was called, in call order, each with whether it raised, and the
\* pacing of the HTTP requests: "delayed" while no request has been sent
\* since the last asyncio.sleep (or at all), "requested" after a request,
\* "burst" once a request has followed another without a sleep between
NoHist ==
    [ yielded |-> 0, terr |-> 0, lerr |-> 0, perr |-> 0, loads |-> 0,
      ferr |-> FALSE, failAt |-> NoneInt, cause |-> "none",
      stats0 |-> ZeroStats, last |-> NoItem, flipped |-> {}, again |-> FALSE,
      ran |-> << >>, pace |-> "delayed" ]

IdleWorkers == [ w \in 1..2 |-> [ pc |-> "off", raw |-> NoItem ] ]

Init ==
    /\ mongo = EmptyMongo
    /\ kind = "none"
    /\ pc = "unbuilt"
    /\ stats = ZeroStats
    /\ db = FALSE
    /\ client = "none"
    /\ clock = 0
    /\ fetch = NoFetch
    /\ cur = NoItem
    /\ outcome = "none"
    /\ hist = NoHist
    /\ script = << >>
    /\ snap = EmptyMongo
    /\ wk = IdleWorkers

(* ------------------------ base.py: process_item ------------------------ *)
transform_raises(k, raw) ==
    CASE k = "members" -> members_transform_raises(raw)
      [] k = "bills" -> bills_transform_raises(raw)
      [] k = "votes" -> votes_transform_raises(raw)
      [] k = "fec" -> fec_transform_raises(raw)
      [] k = "contact" -> contact_transform_raises(raw)

\* self.load(self.transform(raw)) of ingester class k on database m
InCollection(m, c, r) ==
    [ mongo |-> [m EXCEPT ![c] = r.coll],
      raised |-> r.raised,
      was_insert |-> r.was_insert ]

load_item(k, m, raw, now, wfail) ==
    CASE k = "members" ->
           InCollection(m, "politicians",
               members_load(m.politicians, members_transform(raw, now), now, wfail))
      [] k = "bills" ->
           InCollection(m, "legislation",
               bills_load(m.legislation, bills_transform(raw, now), wfail))
      [] k = "votes" ->
           InCollection(m, "votes",
               votes_load(m.votes, votes_transform(raw, now), wfail))
      [] k = "fec" ->
           InCollection(m, "contributions",
               fec_load(m.contributions, fec_transform(raw, now), wfail))
      [] k = "contact" ->
           InCollection(m, "politicians",
               contact_load(m.politicians, contact_transform(raw), now, wfail))

\* BaseIngester.process_item: the try block and its except Exception
TransformFailed(st, m) ==
    [ stats |-> [st EXCEPT !.processed = @ + 1, !.errors = @ + 1], mongo |-> m,
      event |-> "terr", success |-> FALSE ]

\* the try block with processed counted only once load has returned
CountedAfterLoad(st, r) ==
    IF r.raised
    THEN [ stats |-> [st EXCEPT !.errors = @ + 1],
           mongo |-> r.mongo, event |-> "lerr", success |-> FALSE ]
    ELSE [ stats |-> IF r.was_insert
                     THEN [st EXCEPT !.processed = @ + 1, !.inserted = @ + 1]
                     ELSE [st EXCEPT !.processed = @ + 1, !.updated = @ + 1],
           mongo |-> r.mongo, event |-> "ok", success |-> TRUE ]

\* the rest of the try block once load has returned r or has raised
Counted(st, r) ==
    IF r.raised
    THEN [ stats |-> [st EXCEPT !.processed = @ + 1, !.errors = @ + 1],
           mongo |-> r.mongo, event |-> "lerr", success |-> FALSE ]
    ELSE [ stats |-> IF r.was_insert
                     THEN [st EXCEPT !.processed = @ + 1, !.inserted = @ + 1]
                     ELSE [st EXCEPT !.processed = @ + 1, !.updated = @ + 1],
           mongo |-> r.mongo, event |-> "ok", success |-> TRUE ]

base_process_item(k, st, m, raw, now, wfail) ==
    IF transform_raises(k, raw) THEN TransformFailed(st, m)
    ELSE Counted(st, load_item(k, m, raw, now, wfail))

\* ContactInfoIngester.process_item: only updates are counted
ContactCounted(st, r) ==
    IF r.raised
    THEN [ stats |-> [st EXCEPT !.processed = @ + 1, !.errors = @ + 1],
           mongo |-> r.mongo, event |-> "lerr", success |-> FALSE ]
    ELSE [ stats |-> IF r.was_insert
                     THEN [st EXCEPT !.processed = @ + 1, !.updated = @ + 1]
                     ELSE [st EXCEPT !.processed = @ + 1],
           mongo |-> r.mongo, event |-> "ok", success |-> TRUE ]

contact_process_item(st, m, raw, now, wfail) ==
    IF transform_raises("contact", raw) THEN TransformFailed(st, m)
    ELSE ContactCounted(st, load_item("contact", m, raw, now, wfail))

\* VotesIngester.process_item: the base call, then _save_member_positions
\* outside any try block; escaped says an exception leaves process_item
PositionsSaved(b, sp) ==
    [ stats |-> b.stats,
      mongo |-> [b.mongo EXCEPT !.politician_votes = sp.coll],
      event |-> IF sp.raised THEN "perr" ELSE "ok",
      escaped |-> sp.raised ]

NotEscaping(b) ==
    [ stats |-> b.stats, mongo |-> b.mongo, event |-> b.event, escaped |-> FALSE ]

WithPositions(b, raw, pfail) ==
    IF b.success
    THEN PositionsSaved(b, save_member_positions(b.mongo.politician_votes, raw, pfail))
    ELSE NotEscaping(b)

votes_process_item(st, m, raw, now, wfail, pfail) ==
    WithPositions(base_process_item("votes", st, m, raw, now, wfail), raw, pfail)

\* process_item of ingester class k
process_item(k, st, m, raw, now, wfail, pfail) ==
    CASE k = "votes" -> votes_process_item(st, m, raw, now, wfail, pfail)
      [] k = "contact" -> NotEscaping(contact_process_item(st, m, raw, now, wfail))
      [] OTHER -> NotEscaping(base_process_item(k, st, m, raw, now, wfail))

\* the store operations of load that can raise, per class
WriteFailures(k) ==
    IF k = "members" THEN {"none", "update_many", "update_one"}
    ELSE {"none", "update_one"}

(* ------------------------ the fetch_data generators -------------------- *)
\* iterations of the outer loop of fetch_data: the states of the member
\* fetcher, sessions 1 and 2 of the votes fetcher
NumLoops(k) ==
    CASE k = "members" -> Len(states_to_fetch)
      [] k = "votes" -> 2
      [] OTHER -> 1

\* the generator at its first request; fetch_data(chamber="senate") of the
\* votes fetcher returns at once
StartFetch(k, chamber) ==
    [ stage |-> IF k = "votes" /\ chamber = "senate" THEN "ended" ELSE "request",
      loop |-> 1, page |-> 1, left |-> 0, more |-> FALSE, chamber |-> chamber ]

\* leave the inner loop: next state or session, or the end of the generator
NextLoop(k, f) ==
    IF f.loop < NumLoops(k)
    THEN [f EXCEPT !.stage = "request", !.loop = @ + 1, !.page = 1, !.left = 0]
    ELSE [f EXCEPT !.stage = "ended", !.left = 0]

EndFetch(f) == [f EXCEPT !.stage = "ended", !.left = 0]

\* the generator after the last item of a page
AfterPage(k, f) ==
    CASE k = "members" -> NextLoop(k, f)
      [] k \in {"bills", "votes"} -> [f EXCEPT !.stage = "request", !.page = @ + 1, !.left = 0]
      [] k = "fec" -> IF f.more
                      THEN [f EXCEPT !.stage = "request", !.page = @ + 1, !.left = 0]
                      ELSE EndFetch(f)
      [] k = "contact" -> EndFetch(f)

\* the generator after a page request answered 404
AfterNotFound(k, f) ==
    CASE k = "members" -> NextLoop(k, f)
      [] k = "votes" -> NextLoop(k, f)
      [] OTHER -> EndFetch(f)

\* the generator after a page without items
AfterEmpty(k, f) ==
    CASE k \in {"members", "votes"} -> NextLoop(k, f)
      [] OTHER -> EndFetch(f)

\* the generator after a page request that raised and was caught
AfterCaught(k, f) ==
    CASE k \in {"members", "votes"} -> NextLoop(k, f)
      [] OTHER -> EndFetch(f)

\* the except clauses around a page request: does the exception leave
\* fetch_data?  (http: httpx.HTTPError, 404 included where the fetcher does
\* not test for it; malformed: the body does not parse)
RequestEscapes(k, o) ==
    CASE k = "contact" -> o \in {"404", "http_error", "malformed"}
      [] k = "fec" -> o = "malformed"
      [] OTHER -> FALSE

\* is the caught exception counted in stats["errors"]?
RequestCounted(k, o) ==
    /\ k \in {"members", "bills", "votes"}
    /\ o \in {"http_error", "malformed"}

\* a failing page request of a paginated fetcher
PageFailure(k, o) ==
    /\ k \in {"bills", "votes", "fec"}
    /\ o \in {"http_error", "malformed"} \/ (k = "fec" /\ o = "404")

RawItems(k, f) ==
    CASE k = "members" -> RawMembers(states_to_fetch[f.loop])
      [] k = "bills" -> RawBills
      [] k = "votes" -> RawVotes(f.loop)
      [] k = "fec" -> RawContributions
      [] k = "contact" -> RawContacts

\* await client.get(...): one more HTTP request leaves the fetcher
HttpRequest(pace) == IF pace = "delayed" THEN "requested" ELSE "burst"

\* await asyncio.sleep(...): the rate-limit delay
Sleep(pace) == IF pace = "burst" THEN "burst" ELSE "delayed"

\* from the page request to the next statement that sends or sleeps: the
\* member fetcher sleeps after a state without members; no fetcher sleeps
\* after a 404 or a caught exception
PacedRequest(k, o, pace) ==
    IF k = "members" /\ o = "empty" THEN Sleep(HttpRequest(pace))
    ELSE HttpRequest(pace)

\* the requests and the sleep that belong to one yielded item: the detail
\* request of a member that has a bioguideId, of a bill, of a vote (and the
\* clerk's XML, requested right after it), each followed by a sleep once
\* the item is out; FEC and contact items come from the page alone
PacedItem(k, raw, pace) ==
    CASE k = "members" -> IF raw.bioguideId # NoneInt
                          THEN Sleep(HttpRequest(pace)) ELSE pace
      [] k = "bills" -> Sleep(HttpRequest(pace))
      [] k = "votes" -> IF raw.memberVotes # << >>
                        THEN Sleep(HttpRequest(HttpRequest(pace)))
                        ELSE Sleep(HttpRequest(pace))
      [] OTHER -> pace

\* the sleep after the loop over a page's items (members, bills, votes)
PacedPageEnd(k, last, pace) ==
    IF last /\ k \in {"members", "bills", "votes"} THEN Sleep(pace) ELSE pace

(* --------------------------- base.py: run ------------------------------ *)
Aux == << script, snap, wk >>

\* construct an ingester of class k: BaseIngester.__init__
Construct(k) ==
    /\ pc \in {"unbuilt", "done"}
    /\ clock < MaxRuns
    /\ kind' = k
    /\ pc' = "idle"
    /\ stats' = ZeroStats
    /\ db' = FALSE
    /\ client' = "none"
    /\ outcome' = "none"
    /\ hist' = NoHist
    /\ fetch' = NoFetch
    /\ UNCHANGED << mongo, clock, cur, Aux >>

\* FECIngester.__init__ without FEC_API_KEY: ValueError, no instance
ConstructFails ==
    /\ pc \in {"unbuilt", "done"}
    /\ clock < MaxRuns
    /\ kind' = "none"
    /\ pc' = "unbuilt"
    /\ stats' = ZeroStats
    /\ db' = FALSE
    /\ client' = "none"
    /\ outcome' = "config_error"
    /\ hist' = NoHist
    /\ fetch' = NoFetch
    /\ UNCHANGED << mongo, clock, cur, Aux >>

\* run(): started_at is stamped; the statistics are not reset
EnterRun(chamber) ==
    /\ clock' = clock + 1
    /\ stats' = [stats EXCEPT !.started_at = clock + 1]
    /\ hist' = [NoHist EXCEPT !.stats0 = stats]
    /\ fetch' = StartFetch(kind, chamber)
    /\ outcome' = "none"
    /\ pc' = "connect"
    /\ UNCHANGED << mongo, kind, db, client, cur, Aux >>

\* the pipelines call run() once on the ingester they have constructed
RunStart(chamber) ==
    /\ pc = "idle"
    /\ kind \in Kinds
    /\ clock < MaxRuns
    /\ chamber = "house" \/ kind = "votes"
    /\ EnterRun(chamber)

\* sync_votes: run(chamber="senate") on the ingester whose
\* run(chamber="house") has returned
RunNextChamber ==
    /\ pc = "done"
    /\ kind = "votes"
    /\ outcome = "returned"
    /\ fetch.chamber = "house"
    /\ EnterRun("senate")

\* connect(): a client is made only while self.db is None
Connect(ok) ==
    /\ pc = "connect"
    /\ ok \/ ~db
    /\ IF db THEN UNCHANGED << db, client, hist >> /\ pc' = "fetch"
       ELSE IF ok THEN /\ db' = TRUE
                       /\ client' = "open"
                       /\ pc' = "fetch"
                       /\ UNCHANGED hist
       ELSE /\ hist' = [hist EXCEPT !.cause = "connect_error"]
            /\ pc' = "finally"
            /\ UNCHANGED << db, client >>
    /\ UNCHANGED << mongo, kind, stats, clock, fetch, cur, outcome, Aux >>

\* a page request of fetch_data and what its answer does to the generator
FetchRequest(o, n, more) ==
    /\ pc = "fetch"
    /\ fetch.stage = "request"
    /\ o = "ok" => /\ fetch.page <= MaxPages
                   /\ n \in 1..(MaxItems - hist.yielded)
    /\ o # "ok" => n = 0
    /\ more => (o = "ok" /\ kind = "fec")
    /\ IF RequestEscapes(kind, o)
       THEN /\ pc' = "finally"
            /\ hist' = [hist EXCEPT !.cause = "fetch_error",
                                    !.failAt = IF PageFailure(kind, o) /\ @ = NoneInt
                                               THEN hist.yielded ELSE @,
                                    !.pace = PacedRequest(kind, o, @)]
            /\ UNCHANGED << fetch, stats >>
       ELSE /\ pc' = "fetch"
            /\ fetch' = CASE o = "ok" -> [fetch EXCEPT !.stage = "items", !.left = n,
                                                       !.more = more]
                          [] o = "empty" -> AfterEmpty(kind, fetch)
                          [] o = "404" -> IF kind = "fec" THEN AfterCaught(kind, fetch)
                                          ELSE AfterNotFound(kind, fetch)
                          [] OTHER -> AfterCaught(kind, fetch)
            /\ stats' = IF RequestCounted(kind, o)
                        THEN [stats EXCEPT !.errors = @ + 1] ELSE stats
            /\ hist' = [hist EXCEPT !.ferr = @ \/ RequestCounted(kind, o),
                                    !.failAt = IF PageFailure(kind, o) /\ @ = NoneInt
                                               THEN hist.yielded ELSE @,
                                    !.pace = PacedRequest(kind, o, @)]
    /\ UNCHANGED << mongo, kind, db, client, clock, cur, outcome, Aux >>

\* the items the source may hold at the generator's position
Yieldable ==
    IF pc = "fetch" /\ fetch.stage = "items" THEN RawItems(kind, fetch) ELSE {}

\* the generator yields the next item of the page to the loop of run()
YieldItem(raw) ==
    /\ pc = "fetch"
    /\ fetch.stage = "items"
    /\ raw \in Yieldable
    /\ cur' = raw
    /\ pc' = "item"
    /\ fetch' = IF fetch.left = 1 THEN AfterPage(kind, fetch)
                ELSE [fetch EXCEPT !.left = @ - 1]
    /\ hist' = [hist EXCEPT !.yielded = @ + 1,
                            !.pace = PacedPageEnd(kind, fetch.left = 1,
                                                  PacedItem(kind, raw, @))]
    /\ UNCHANGED << mongo, kind, stats, db, client, clock, outcome, Aux >>

\* the detail request of a listed bill or vote fails: the item is not
\* yielded; an exception is counted, another status is only logged
SkipItem(o) ==
    /\ pc = "fetch"
    /\ fetch.stage = "items"
    /\ kind \in {"bills", "votes"}
    /\ o \in {"status", "exception"}
    /\ fetch' = IF fetch.left = 1 THEN AfterPage(kind, fetch)
                ELSE [fetch EXCEPT !.left = @ - 1]
    /\ stats' = IF o = "exception" THEN [stats EXCEPT !.errors = @ + 1] ELSE stats
    /\ hist' = [hist EXCEPT !.ferr = @ \/ o = "exception",
                            !.pace = PacedPageEnd(kind, fetch.left = 1, HttpRequest(@))]
    /\ UNCHANGED << mongo, kind, pc, db, client, clock, cur, outcome, Aux >>

\* await self.process_item(raw_item) in the loop of run()
ProcessItem(wfail, pfail) ==
    /\ pc = "item"
    /\ wfail \in WriteFailures(kind)
    /\ pfail # 0 => (kind = "votes" /\ pfail <= Len(cur.memberVotes))
    /\ \E r \in {process_item(kind, stats, mongo, cur, clock, wfail, pfail)} :
       LET loaded == kind = "members" /\ r.event = "ok"
           p == IF loaded THEN members_transform(cur, clock) ELSE NoItem
       IN  /\ (wfail # "none") => (r.event = "lerr")
           /\ (pfail # 0) => (r.event = "perr")
           /\ stats' = r.stats
           /\ mongo' = r.mongo
           /\ pc' = IF r.escaped THEN "finally" ELSE "fetch"
           /\ hist' = [hist EXCEPT
                         !.terr = IF r.event = "terr" THEN @ + 1 ELSE @,
                         !.lerr = IF r.event = "lerr" THEN @ + 1 ELSE @,
                         !.perr = IF r.event = "perr" THEN @ + 1 ELSE @,
                         !.loads = IF r.event = "terr" THEN @ ELSE @ + 1,
                         !.cause = IF r.escaped THEN "item_error" ELSE @,
                         !.last = p,
                         !.flipped = IF loaded THEN Flagged(mongo.politicians, p) ELSE {},
                         !.again = loaded /\ hist.last = p]
    /\ cur' = NoItem
    /\ UNCHANGED << kind, db, client, clock, fetch, outcome, Aux >>

\* the generator is exhausted: the async for loop ends
FetchReturn ==
    /\ pc = "fetch"
    /\ fetch.stage = "ended"
    /\ pc' = "finally"
    /\ hist' = [hist EXCEPT !.cause = "exhausted"]
    /\ UNCHANGED << mongo, kind, stats, db, client, clock, fetch, cur, outcome, Aux >>

\* an interrupt that ends run() at once, as without the finally block
InterruptSkipsFinally ==
    /\ pc \in {"connect", "fetch", "item"}
    /\ pc' = "done"
    /\ outcome' = "raised"
    /\ hist' = [hist EXCEPT !.cause = "interrupt"]
    /\ cur' = NoItem
    /\ UNCHANGED << mongo, kind, stats, db, client, clock, fetch, Aux >>

\* the operator interrupts the run inside the try block
Interrupt ==
    /\ pc \in {"connect", "fetch", "item"}
    /\ pc' = "finally"
    /\ hist' = [hist EXCEPT !.cause = "interrupt"]
    /\ cur' = NoItem
    /\ UNCHANGED << mongo, kind, stats, db, client, clock, fetch, outcome, Aux >>

\* finally: completed_at is stamped and the statistics are logged
Finally ==
    /\ pc = "finally"
    /\ stats' = [stats EXCEPT !.completed_at = clock]
    /\ pc' = "disconnect"
    /\ UNCHANGED << mongo, kind, db, client, clock, fetch, cur, outcome, hist, Aux >>

\* finally: await self.disconnect(); then run returns self.stats, or the
\* exception that ended the try block is raised again
Disconnect ==
    /\ pc = "disconnect"
    /\ client' = IF client # "none" THEN "closed" ELSE client
    /\ outcome' = IF hist.cause = "exhausted" THEN "returned" ELSE "raised"
    /\ pc' = "done"
    /\ UNCHANGED << mongo, kind, stats, db, clock, fetch, cur, hist, Aux >>

Next ==
    \/ \E k \in Kinds : Construct(k)
    \/ ConstructFails
    \/ \E c \in {"house", "senate"} : RunStart(c)
    \/ RunNextChamber
    \/ \E ok \in BOOLEAN : Connect(ok)
    \/ \E o \in {"ok", "empty", "404", "http_error", "malformed"},
          n \in 0..MaxItems, more \in BOOLEAN : FetchRequest(o, n, more)
    \/ \E raw \in Yieldable : YieldItem(raw)
    \/ \E o \in {"status", "exception"} : SkipItem(o)
    \/ \E wfail \in {"none", "update_many", "update_one"},
          pfail \in 0..MaxMemberVotes : ProcessItem(wfail, pfail)
    \/ FetchReturn
    \/ Interrupt
    \/ Finally
    \/ Disconnect

Spec == Init /\ [][Next]_vars

\* the steps run() takes by itself once it has been called: every await of
\* the loop returns or raises (the HTTP clients carry timeouts)
RunStep ==
    \/ \E ok \in BOOLEAN : Connect(ok)
    \/ \E o \in {"ok", "empty", "404", "http_error", "malformed"},
          n \in 0..MaxItems, more \in BOOLEAN : FetchRequest(o, n, more)
    \/ \E raw \in Yieldable : YieldItem(raw)
    \/ \E o \in {"status", "exception"} : SkipItem(o)
    \/ \E wfail \in {"none", "update_many", "update_one"},
          pfail \in 0..MaxMemberVotes : ProcessItem(wfail, pfail)
    \/ FetchReturn
    \/ Finally
    \/ Disconnect

\* the pipelines' last run: the run before it could not connect and has
\* left no record, and the FEC ingester after it could not be constructed
LastRunInit ==
    /\ mongo = EmptyMongo
    /\ kind = "none"
    /\ pc = "unbuilt"
    /\ stats = ZeroStats
    /\ db = FALSE
    /\ client = "none"
    /\ clock = MaxRuns - 1
    /\ fetch = NoFetch
    /\ cur = NoItem
    /\ outcome = "config_error"
    /\ hist = NoHist
    /\ script = << >>
    /\ snap = EmptyMongo
    /\ wk = IdleWorkers

\* a called run() keeps executing
LiveSpec == LastRunInit /\ [][Next]_vars /\ WF_vars(RunStep)

(* ---------------- the same source items, synced twice ------------------ *)
\* the items a source may serve to the two syncs of class k
ReplayItems(k) ==
    CASE k = "members" ->
           { r \in RawMembers("UT") \cup RawMembers("GU") :
                r.chamber # "" /\ r.district # 0 }
      [] k = "bills" -> RawBills
      [] k = "votes" -> RawVotes(1) \cup RawVotes(2)
      [] k = "fec" -> RawContributions
      [] k = "contact" -> RawContacts

\* the class whose sync has filled the collection before: the contact
\* sync updates the records of the member sync
SeedKind(k) == IF k = "contact" THEN "members" ELSE k

\* a class of ingester and the items its source serves are chosen; the
\* store is still to be filled by an earlier sync
TwiceInit ==
    /\ mongo = EmptyMongo
    /\ kind \in Kinds
    /\ pc = "seed"
    /\ stats = ZeroStats
    /\ db = TRUE
    /\ client = "open"
    /\ clock = 0
    /\ fetch = NoFetch
    /\ cur = NoItem
    /\ outcome = "none"
    /\ hist = NoHist
    /\ script \in SeqsUpTo(ReplayItems(kind), MaxItems)
    /\ snap = EmptyMongo
    /\ wk = IdleWorkers

\* an earlier sync has processed raw: the store the two syncs start from
Seed(raw) ==
    /\ pc = "seed"
    /\ hist.yielded < MaxSeeds
    /\ raw \in ReplayItems(SeedKind(kind))
    /\ mongo' = process_item(SeedKind(kind), ZeroStats, mongo, raw, clock, "none", 0).mongo
    /\ hist' = [hist EXCEPT !.yielded = @ + 1]
    /\ UNCHANGED << kind, pc, stats, db, client, clock, fetch, cur, outcome, Aux >>

\* the first sync starts: a new ingester, as each pipeline constructs
FirstSync ==
    /\ pc = "seed"
    /\ pc' = "first"
    /\ clock' = clock + 1
    /\ stats' = [ZeroStats EXCEPT !.started_at = clock + 1]
    /\ hist' = NoHist
    /\ UNCHANGED << mongo, kind, db, client, fetch, cur, outcome, Aux >>

\* the loop of run(): process_item on the next item of the source
SyncItem ==
    /\ pc \in {"first", "second"}
    /\ hist.yielded < Len(script)
    /\ LET r == process_item(kind, stats, mongo, script[hist.yielded + 1], clock,
                             "none", 0)
       IN  /\ stats' = r.stats
           /\ mongo' = r.mongo
    /\ hist' = [hist EXCEPT !.yielded = @ + 1]
    /\ UNCHANGED << kind, pc, db, client, clock, fetch, cur, outcome, Aux >>

\* the first sync has returned and the second starts on the same items,
\* again with a new ingester
SecondSync ==
    /\ pc = "first"
    /\ hist.yielded = Len(script)
    /\ pc' = "second"
    /\ snap' = mongo
    /\ clock' = clock + 1
    /\ stats' = [ZeroStats EXCEPT !.started_at = clock + 1]
    /\ hist' = NoHist
    /\ UNCHANGED << mongo, kind, db, client, fetch, cur, outcome, script, wk >>

\* the second sync returns its statistics
SyncedTwice ==
    /\ pc = "second"
    /\ hist.yielded = Len(script)
    /\ pc' = "synced"
    /\ stats' = [stats EXCEPT !.completed_at = clock]
    /\ outcome' = "returned"
    /\ UNCHANGED << mongo, kind, db, client, clock, fetch, cur, hist, Aux >>

TwiceNext ==
    \/ \E raw \in ReplayItems(SeedKind(kind)) : Seed(raw)
    \/ FirstSync
    \/ SyncItem
    \/ SecondSync
    \/ SyncedTwice

TwiceSpec == TwiceInit /\ [][TwiceNext]_vars

(* ------------- roll calls ingested one after another ------------------- *)
\* _parse_house_clerk_xml: the recorded votes of a roll call, each with a
\* name-id and the text of its vote element, as the clerk writes it
FeedMemberVotes == [ bioguideId : BioIds, voteCast : {"Aye", "No"} ]

\* the roll calls fetch_data can yield: sessions 1 and 2 number their roll
\* calls separately
FeedVotes ==
    [ rollCallNumber : Keys \cup {NoneInt},
      sessionNumber : {1, 2},
      result : {"Passed"},
      memberVotes : SeqsUpTo(FeedMemberVotes, MaxFeedVotes) ]

\* a votes ingester, connected, before its first item
VotesInit ==
    /\ mongo = EmptyMongo
    /\ kind = "votes"
    /\ pc = "item"
    /\ stats = ZeroStats
    /\ db = TRUE
    /\ client = "open"
    /\ clock = 1
    /\ fetch = NoFetch
    /\ cur = NoItem
    /\ outcome = "none"
    /\ hist = NoHist
    /\ script = << >>
    /\ snap = EmptyMongo
    /\ wk = IdleWorkers

\* VotesIngester.process_item on the next roll call the fetcher yields
IngestVote(raw, wfail, pfail) ==
    /\ pc = "item"
    /\ hist.yielded < MaxIngests
    /\ raw \in FeedVotes
    /\ wfail \in WriteFailures("votes")
    /\ pfail \in 0..Len(raw.memberVotes)
    /\ \E r \in {votes_process_item(stats, mongo, raw, clock, wfail, pfail)} :
          /\ (wfail # "none") => (r.event = "lerr")
          /\ (pfail # 0) => (r.event = "perr")
          /\ stats' = r.stats
          /\ mongo' = r.mongo
          /\ pc' = IF r.escaped THEN "raised" ELSE "item"
    /\ cur' = raw
    /\ hist' = [hist EXCEPT !.yielded = @ + 1]
    /\ UNCHANGED << kind, db, client, clock, fetch, outcome, Aux >>

\* a later sync: sync_votes constructs a new ingester and runs it
LaterVotesRun ==
    /\ pc \in {"item", "raised"}
    /\ clock < MaxRuns
    /\ hist.yielded > 0
    /\ pc' = "item"
    /\ clock' = clock + 1
    /\ stats' = ZeroStats
    /\ cur' = NoItem
    /\ UNCHANGED << mongo, kind, db, client, fetch, outcome, hist, Aux >>

VotesNext ==
    \/ \E raw \in FeedVotes, wfail \in {"none", "update_one"},
          pfail \in 0..MaxFeedVotes : IngestVote(raw, wfail, pfail)
    \/ LaterVotesRun

VotesSpec == VotesInit /\ [][VotesNext]_vars

(* ------------------ a member sync with scope filters ------------------ *)
\* `sub in chamber_str` for the lower-cased chamber names of a term
Contains(chamber_str, sub) ==
    CASE chamber_str = "senate" -> sub = "senate"
      [] chamber_str = "house of representatives" -> sub \in {"house", "representatives"}
      [] OTHER -> FALSE

\* CongressMembersIngester._extract_chamber: "senate", "house" or None
extract_chamber(member) ==
    LET chamber_str == Lower(member.chamber)
    IN  IF Contains(chamber_str, "senate") THEN "senate"
        ELSE IF Contains(chamber_str, "house") THEN "house"
        ELSE NoneStr

\* __init__: the filters as the ingester keeps them
StateFilterKept(state_filter) ==
    IF state_filter # NoneStr /\ state_filter # "" THEN Upper(state_filter) ELSE NoneStr

ChamberFilterKept(chamber_filter) ==
    IF chamber_filter # NoneStr /\ chamber_filter # "" THEN Lower(chamber_filter) ELSE NoneStr

\* fetch_data: the states whose member list is requested
scoped_states(state_filter) ==
    IF state_filter # NoneStr THEN << state_filter >> ELSE states_to_fetch

\* sync_members(state=..., chamber=...): the arguments of the command line
ScopeArgs ==
    [ state : {NoneStr, "UT", "ut", "GU"}, chamber : {NoneStr, "senate", "house"} ]

\* the ingester constructed with its filters, connected, at the first
\* request of fetch_data (snap: the arguments and the filters kept)
ScopeInit ==
    /\ mongo = EmptyMongo
    /\ kind = "members"
    /\ pc = "fetch"
    /\ stats = ZeroStats
    /\ db = TRUE
    /\ client = "open"
    /\ clock = 1
    /\ fetch = [NoFetch EXCEPT !.stage = "request", !.loop = 1]
    /\ cur = NoItem
    /\ outcome = "none"
    /\ hist = NoHist
    /\ script = << >>
    /\ \E a \in ScopeArgs :
          snap = [ state |-> a.state, chamber |-> a.chamber,
                   state_filter |-> StateFilterKept(a.state),
                   chamber_filter |-> ChamberFilterKept(a.chamber) ]
    /\ wk = IdleWorkers

\* the member list of the next state is requested (script: the states
\* requested so far); a 404 or a caught error goes on to the next state
ScopedRequest(o, n) ==
    /\ pc = "fetch"
    /\ fetch.stage = "request"
    /\ fetch.loop <= Len(scoped_states(snap.state_filter))
    /\ o = "ok" => n \in 1..(MaxItems - hist.yielded)
    /\ o # "ok" => n = 0
    /\ script' = Append(script, scoped_states(snap.state_filter)[fetch.loop])
    /\ fetch' = IF o = "ok" THEN [fetch EXCEPT !.stage = "items", !.left = n]
                ELSE [fetch EXCEPT !.loop = @ + 1]
    /\ stats' = IF o = "http_error" THEN [stats EXCEPT !.errors = @ + 1] ELSE stats
    /\ UNCHANGED << mongo, kind, pc, db, client, clock, cur, outcome, hist, snap, wk >>

\* the next member of the list: skipped by the chamber filter, or yielded
\* and handed to process_item by the loop of run()
ScopedMember(raw) ==
    /\ pc = "fetch"
    /\ fetch.stage = "items"
    /\ raw \in RawMembers(scoped_states(snap.state_filter)[fetch.loop])
    /\ fetch' = IF fetch.left = 1
                THEN [fetch EXCEPT !.stage = "request", !.loop = @ + 1, !.left = 0]
                ELSE [fetch EXCEPT !.left = @ - 1]
    /\ IF snap.chamber_filter # NoneStr /\ extract_chamber(raw) # snap.chamber_filter
       THEN /\ hist' = [hist EXCEPT !.yielded = @ + 1]
            /\ UNCHANGED << mongo, stats, cur >>
       ELSE \E r \in {process_item("members", stats, mongo, raw, clock, "none", 0)} :
              /\ stats' = r.stats
              /\ mongo' = r.mongo
              /\ cur' = raw
              /\ hist' = [hist EXCEPT !.yielded = @ + 1,
                                      !.loads = IF r.event = "ok" THEN @ + 1 ELSE @,
                                      !.last = IF r.event = "ok"
                                               THEN members_transform(raw, clock) ELSE @]
    /\ UNCHANGED << kind, pc, db, client, clock, outcome, Aux >>

\* the states are exhausted: run() returns the statistics
ScopedReturn ==
    /\ pc = "fetch"
    /\ fetch.stage = "request"
    /\ fetch.loop > Len(scoped_states(snap.state_filter))
    /\ pc' = "done"
    /\ outcome' = "returned"
    /\ stats' = [stats EXCEPT !.completed_at = clock]
    /\ UNCHANGED << mongo, kind, db, client, clock, fetch, cur, hist, Aux >>

ScopeNext ==
    \/ \E o \in {"ok", "404", "http_error"}, n \in 0..MaxItems : ScopedRequest(o, n)
    \/ \E st \in {"UT", "GU"} : \E raw \in RawMembers(st) : ScopedMember(raw)
    \/ ScopedReturn

ScopeSpec == ScopeInit /\ [][ScopeNext]_vars

(* -------------------- congress_bills.py: fetch_data -------------------- *)
\* the limit test with > in place of >=
LimitReachedLate(max_bills, total_fetched) ==
    Truthy(max_bills) /\ total_fetched > max_bills

\* if max_bills and total_fetched >= max_bills
LimitReached(max_bills, total_fetched) ==
    Truthy(max_bills) /\ total_fetched >= max_bills

\* fetch_data(limit_per_request, max_bills) and the source it reads: `pages`
\* non-empty pages, every later page empty or answered 404
BillFetchArgs ==
    [ limit_per_request : 1..MaxLimit,
      max_bills : {NoneInt} \cup 0..MaxBillLimit,
      pages : 0..MaxBillPages ]

\* the generator before its first request: offset = 0, total_fetched = 0
\* (snap: the arguments and the source; script: the offsets requested)
BillsInit ==
    /\ mongo = EmptyMongo
    /\ kind = "bills"
    /\ pc = "fetch"
    /\ stats = ZeroStats
    /\ db = TRUE
    /\ client = "open"
    /\ clock = 1
    /\ fetch = [ stage |-> "request", offset |-> 0, total_fetched |-> 0, left |-> 0 ]
    /\ cur = NoItem
    /\ outcome = "none"
    /\ hist = NoHist
    /\ script = << >>
    /\ snap \in BillFetchArgs
    /\ wk = IdleWorkers

\* the answers the source can give to the request at an offset
PageAnswers(args, offset) ==
    IF offset \div args.limit_per_request < args.pages
    THEN {"ok", "http_error", "malformed"}
    ELSE {"empty", "404", "http_error", "malformed"}

\* the list request at the current offset: n bills, or the loop breaks
BillsPageRequest(o, n) ==
    /\ pc = "fetch"
    /\ fetch.stage = "request"
    /\ o \in PageAnswers(snap, fetch.offset)
    /\ o = "ok" => n \in 1..snap.limit_per_request
    /\ o # "ok" => n = 0
    /\ script' = Append(script, fetch.offset)
    /\ fetch' = IF o = "ok" THEN [fetch EXCEPT !.stage = "items", !.left = n]
                ELSE [fetch EXCEPT !.stage = "ended"]
    /\ stats' = IF o \in {"http_error", "malformed"}
                THEN [stats EXCEPT !.errors = @ + 1] ELSE stats
    /\ hist' = [hist EXCEPT !.pace = HttpRequest(@)]
    /\ UNCHANGED << mongo, kind, pc, db, client, clock, cur, outcome, snap, wk >>

\* the generator after a listed bill has been dealt with
AfterBill(f, limit_per_request) ==
    IF f.left = 1
    THEN [f EXCEPT !.stage = "request", !.left = 0, !.offset = @ + limit_per_request]
    ELSE [f EXCEPT !.left = @ - 1]

\* the detail request of the next listed bill: the bill is yielded and
\* counted, and fetch_data returns once max_bills is reached; a failed
\* detail request yields nothing
BillDetail(o) ==
    /\ pc = "fetch"
    /\ fetch.stage = "items"
    /\ IF o = "ok"
       THEN /\ hist' = [hist EXCEPT !.yielded = @ + 1,
                                    !.pace = PacedPageEnd("bills", fetch.left = 1,
                                                          Sleep(HttpRequest(@)))]
            /\ fetch' = IF LimitReached(snap.max_bills, fetch.total_fetched + 1)
                        THEN [fetch EXCEPT !.stage = "ended",
                                           !.total_fetched = @ + 1]
                        ELSE AfterBill([fetch EXCEPT !.total_fetched = @ + 1],
                                       snap.limit_per_request)
            /\ UNCHANGED stats
       ELSE /\ hist' = [hist EXCEPT !.ferr = @ \/ o = "exception",
                                    !.pace = PacedPageEnd("bills", fetch.left = 1,
                                                          HttpRequest(@))]
            /\ fetch' = AfterBill(fetch, snap.limit_per_request)
            /\ stats' = IF o = "exception" THEN [stats EXCEPT !.errors = @ + 1]
                        ELSE stats
    /\ UNCHANGED << mongo, kind, pc, db, client, clock, cur, outcome, Aux >>

\* the generator has returned: the async for loop of run() ends
BillsReturn ==
    /\ pc = "fetch"
    /\ fetch.stage = "ended"
    /\ pc' = "done"
    /\ outcome' = "returned"
    /\ UNCHANGED << mongo, kind, stats, db, client, clock, fetch, cur, hist, Aux >>

BillsNext ==
    \/ \E o \in {"ok", "empty", "404", "http_error", "malformed"},
          n \in 0..MaxLimit : BillsPageRequest(o, n)
    \/ \E o \in {"ok", "status", "exception"} : BillDetail(o)
    \/ BillsReturn

\* every await of the generator returns or raises (the client carries a
\* timeout) and run() keeps asking for the next item
BillsSpec == BillsInit /\ [][BillsNext]_vars /\ WF_vars(BillsNext)

(* ------- the member, committee and contact pipelines on one store ------ *)
\* update_one(filter, {"$addToSet": {"committees": entry}, "$set": fields})
\* on the documents `matched` of coll: no upsert
add_to_set(coll, matched, entry, fields) ==
    IF matched = {} THEN coll
    ELSE LET t == CHOOSE d \in matched : TRUE
         IN  (coll \ {t}) \cup
             {[SetFields(t, fields) EXCEPT !.committees = @ \cup {entry}]}

\* CommitteeIngester.load: the committee is added to the record of each
\* listed member that has a bioguideId
RECURSIVE committee_load(_, _, _, _)
committee_load(coll, committee_data, i, now) ==
    IF i > Len(committee_data.members) THEN coll
    ELSE LET bioguide_id == committee_data.members[i]
             entry == [ code |-> committee_data.committee_code, role |-> "Member" ]
             next == IF bioguide_id = NoneInt THEN coll
                     ELSE add_to_set(coll, { d \in coll : d.bioguide_id = bioguide_id },
                                     entry, [last_updated |-> now])
         IN  committee_load(next, committee_data, i + 1, now)

\* the committees the committee fetcher yields, with their members
RawCommittees ==
    [ committee_code : {"HSAG"}, members : SeqsUpTo(BioIds \cup {NoneInt}, 1) ]

\* the members of one state that the member fetcher yields and transform
\* accepts
EnrichedMembers == { r \in RawMembers("UT") : ~members_transform_raises(r) }

\* an empty store, before the pipelines run (kind: the pipeline that
\* loaded last)
EnrichInit ==
    /\ mongo = EmptyMongo
    /\ kind = "none"
    /\ pc = "sync"
    /\ stats = ZeroStats
    /\ db = TRUE
    /\ client = "open"
    /\ clock = 1
    /\ fetch = NoFetch
    /\ cur = NoItem
    /\ outcome = "none"
    /\ hist = NoHist
    /\ script = << >>
    /\ snap = EmptyMongo
    /\ wk = IdleWorkers

\* the member sync loads raw
MemberSynced(raw) ==
    /\ pc = "sync"
    /\ hist.yielded < MaxEnrichSteps
    /\ raw \in EnrichedMembers
    /\ kind' = "members"
    /\ cur' = raw
    /\ mongo' = process_item("members", ZeroStats, mongo, raw, clock, "none", 0).mongo
    /\ hist' = [hist EXCEPT !.yielded = @ + 1]
    /\ UNCHANGED << pc, stats, db, client, clock, fetch, outcome, Aux >>

\* the committee sync loads a committee
CommitteeSynced(raw) ==
    /\ pc = "sync"
    /\ hist.yielded < MaxEnrichSteps
    /\ raw \in RawCommittees
    /\ kind' = "committees"
    /\ cur' = raw
    /\ mongo' = [mongo EXCEPT !.politicians = committee_load(@, raw, 1, clock)]
    /\ hist' = [hist EXCEPT !.yielded = @ + 1]
    /\ UNCHANGED << pc, stats, db, client, clock, fetch, outcome, Aux >>

\* the contact-info enrichment loads raw
ContactSynced(raw) ==
    /\ pc = "sync"
    /\ hist.yielded < MaxEnrichSteps
    /\ raw \in RawContacts
    /\ kind' = "contact"
    /\ cur' = raw
    /\ mongo' = process_item("contact", ZeroStats, mongo, raw, clock, "none", 0).mongo
    /\ hist' = [hist EXCEPT !.yielded = @ + 1]
    /\ UNCHANGED << pc, stats, db, client, clock, fetch, outcome, Aux >>

EnrichNext ==
    \/ \E raw \in EnrichedMembers : MemberSynced(raw)
    \/ \E raw \in RawCommittees : CommitteeSynced(raw)
    \/ \E raw \in RawContacts : ContactSynced(raw)

EnrichSpec == EnrichInit /\ [][EnrichNext]_vars

(* ---------------- the normalisers, applied and applied again ----------- *)
Normalizers ==
    { "normalize_state", "normalize_party", "normalize_chamber",
      "normalize_bill_status", "normalize_politician",
      "normalize_contribution", "normalize_legislation" }

\* string-or-null arguments: None, empty and blank strings, codes and names
\* in several cases, padded values, unknown values
StateStrings ==
    { NoneStr, "", " ", "UT", "ut", " UT ", "Utah", "utah", "UTAH", " Utah ",
      "GU", "XX", "New York", "new york", "U" }

PartyStrings ==
    { NoneStr, "", " ", "Republican", "republican", " R ", "r", "D",
      "Democratic", "O", "Unknown", "other", "Whig" }

ChamberStrings ==
    { NoneStr, "", " ", "Senate", "senate", "SeNaTe", "House", " House ",
      "House of Representatives", "house of representatives", "Assembly" }

StatusStrings ==
    { NoneStr, "", " ", "intro", "Intro", "introduced", "Enacted",
      "Became Law", "became-law", "became_law", "Passed House", " vetoed ",
      "In Committee", "-", "Referred" }

\* the dict d with the keys of K only
Restrict(d, K) == [ k \in K |-> d[k] ]

\* politician dicts: any subset of the keys may be missing
PoliticianDicts ==
    { Restrict(d, K) :
        d \in [ bioguide_id : {1}, full_name : {"Lee, Mike"},
                state : {NoneStr, "Utah", " UT ", "GU"},
                party : {NoneStr, "Republican", "O"},
                chamber : {"Senate", "house", "Assembly"},
                last_updated : {0}, in_office : {FALSE} ],
        K \in SUBSET {"bioguide_id", "full_name", "state", "party", "chamber",
                      "last_updated", "in_office"} }

ContributionDicts ==
    { Restrict(d, K) :
        d \in [ id : {1}, contributor_state : {NoneStr, "Utah", "ut", "XX"},
                last_updated : {0} ],
        K \in SUBSET {"id", "contributor_state", "last_updated"} }

LegislationDicts ==
    { Restrict(d, K) :
        d \in [ bill_id : {1}, status : StatusStrings, last_updated : {0} ],
        K \in SUBSET {"bill_id", "status", "last_updated"} }

NormInputs(fn) ==
    CASE fn = "normalize_state" -> StateStrings
      [] fn = "normalize_party" -> PartyStrings
      [] fn = "normalize_chamber" -> ChamberStrings
      [] fn = "normalize_bill_status" -> StatusStrings
      [] fn = "normalize_politician" -> PoliticianDicts
      [] fn = "normalize_contribution" -> ContributionDicts
      [] fn = "normalize_legislation" -> LegislationDicts

\* the call fn(x); now is datetime.utcnow() of the record wrappers
Normalized(fn, x, now) ==
    CASE fn = "normalize_state" -> normalize_state(x)
      [] fn = "normalize_party" -> normalize_party(x)
      [] fn = "normalize_chamber" -> normalize_chamber(x)
      [] fn = "normalize_bill_status" -> normalize_bill_status(x)
      [] fn = "normalize_politician" -> normalize_politician(x, now)
      [] fn = "normalize_contribution" -> normalize_contribution(x, now)
      [] fn = "normalize_legislation" -> normalize_legislation(x, now)

\* a normaliser and its argument are chosen
NormInit ==
    /\ mongo = EmptyMongo
    /\ kind \in Normalizers
    /\ pc = "input"
    /\ stats = ZeroStats
    /\ db = FALSE
    /\ client = "none"
    /\ clock = 0
    /\ fetch = NoFetch
    /\ cur \in NormInputs(kind)
    /\ outcome = "none"
    /\ hist = NoHist
    /\ script = << >>
    /\ snap = NoItem
    /\ wk = IdleWorkers

\* the normaliser is called on the argument (the wrappers work on a copy:
\* the argument is not written); snap keeps the value returned
Normalize ==
    /\ pc = "input"
    /\ clock' = clock + 1
    /\ outcome' = Normalized(kind, cur, clock + 1)
    /\ snap' = Normalized(kind, cur, clock + 1)
    /\ pc' = "once"
    /\ UNCHANGED << mongo, kind, stats, db, client, fetch, cur, hist, script, wk >>

\* the normaliser is called on the value it has returned, at a later time
NormalizeAgain ==
    /\ pc = "once"
    /\ clock' = clock + 1
    /\ outcome' = Normalized(kind, snap, clock + 1)
    /\ pc' = "twice"
    /\ UNCHANGED << mongo, kind, stats, db, client, fetch, cur, hist, script, snap, wk >>

NormNext ==
    \/ Normalize
    \/ NormalizeAgain

NormSpec == NormInit /\ [][NormNext]_vars

(* ------------------- sync_all.py: the orchestrator --------------------- *)
\* the keys of PIPELINES, in the order of the dict
PIPELINES == << "members", "bills", "embeddings", "committees", "votes",
               "contributions" >>

\* Pipeline.depends_on
depends_on(name) ==
    CASE name = "members" -> << >>
      [] name = "bills" -> << "members" >>
      [] name = "embeddings" -> << "bills" >>
      [] name = "committees" -> << "members" >>
      [] name = "votes" -> << "members", "bills" >>
      [] name = "contributions" -> << "members" >>

\* Pipeline.slow
slow(name) == name \in {"bills", "embeddings", "votes", "contributions"}

\* the elements of a list
Elements(list) == { list[i] : i \in DOMAIN list }

\* [p for p in list if p in keep]
RECURSIVE Filtered(_, _)
Filtered(list, keep) ==
    IF list = << >> THEN << >>
    ELSE IF Head(list) \in keep THEN << Head(list) >> \o Filtered(Tail(list), keep)
    ELSE Filtered(Tail(list), keep)

RECURSIVE add_with_deps(_, _, _)
RECURSIVE add_each_dep(_, _, _, _)

\* add_with_deps appending the name before its dependencies
add_with_deps_name_first(name, pipelines_to_run, st) ==
    IF name \in st.seen THEN st
    ELSE add_each_dep(depends_on(name), 1, pipelines_to_run,
                      [ resolved |-> IF name \in Elements(st.resolved) THEN st.resolved
                                     ELSE Append(st.resolved, name),
                        seen |-> IF name \in Elements(st.resolved) THEN st.seen
                                 ELSE st.seen \cup {name} ])

\* the closure add_with_deps of resolve_dependencies; st holds the lists
\* resolved and seen
add_with_deps(name, pipelines_to_run, st) ==
    IF name \in st.seen THEN st
    ELSE LET after == add_each_dep(depends_on(name), 1, pipelines_to_run, st)
         IN  IF name \notin Elements(after.resolved)
             THEN [ resolved |-> Append(after.resolved, name),
                    seen |-> after.seen \cup {name} ]
             ELSE after

\* for dep in pipeline.depends_on, from the i-th on
add_each_dep(deps, i, pipelines_to_run, st) ==
    IF i > Len(deps) THEN st
    ELSE add_each_dep(deps, i + 1, pipelines_to_run,
             IF deps[i] \in Elements(pipelines_to_run) \/ deps[i] \notin st.seen
             THEN add_with_deps(deps[i], pipelines_to_run, st)
             ELSE st)

\* for name in pipelines_to_run, from the i-th on
RECURSIVE add_each_name(_, _, _)
add_each_name(pipelines_to_run, i, st) ==
    IF i > Len(pipelines_to_run) THEN st
    ELSE add_each_name(pipelines_to_run, i + 1,
                       add_with_deps(pipelines_to_run[i], pipelines_to_run, st))

resolve_dependencies(pipelines_to_run) ==
    add_each_name(pipelines_to_run, 1, [ resolved |-> << >>, seen |-> {} ]).resolved

\* run_all_pipelines: the pipelines selected by only, skip and skip_slow
pipelines_to_run(args) ==
    LET chosen == IF args.only # << >> THEN args.only ELSE PIPELINES
        kept == IF args.skip # {}
                THEN Filtered(chosen, Elements(PIPELINES) \ args.skip)
                ELSE chosen
    IN  IF args.skip_slow
        THEN Filtered(kept, { p \in Elements(PIPELINES) : ~slow(p) })
        ELSE kept

\* the lists of distinct pipeline names --only may carry (empty: all)
OnlyLists ==
    { l \in SeqsUpTo(Elements(PIPELINES), Len(PIPELINES)) :
        \A i, j \in DOMAIN l : l[i] = l[j] => i = j }

\* the arguments of a call of run_all_pipelines
OrchArgs ==
    [ only : OnlyLists,
      skip : { K \in SUBSET Elements(PIPELINES) : Cardinality(K) <= MaxSkip },
      skip_slow : BOOLEAN,
      dry_run : BOOLEAN ]

\* all_stats = {}
NoStats == [ name \in {} |-> "stats" ]

\* run_all_pipelines is called
OrchInit ==
    /\ mongo = EmptyMongo
    /\ kind = "none"
    /\ pc = "orchestrate"
    /\ stats = ZeroStats
    /\ db = FALSE
    /\ client = "none"
    /\ clock = 0
    /\ fetch = NoFetch
    /\ cur \in OrchArgs
    /\ outcome = "none"
    /\ hist = NoHist
    /\ script = << >>
    /\ snap = NoStats
    /\ wk = IdleWorkers

\* the filters and resolve_dependencies: script is the list `ordered`; a dry
\* run returns after printing it
ResolveOrder ==
    /\ pc = "orchestrate"
    /\ script' = resolve_dependencies(pipelines_to_run(cur))
    /\ pc' = IF cur.dry_run THEN "returned" ELSE "pipelines"
    /\ fetch' = [fetch EXCEPT !.loop = 1]
    /\ outcome' = IF cur.dry_run THEN "dry_run" ELSE outcome
    /\ UNCHANGED << mongo, kind, stats, db, client, clock, cur, hist, snap, wk >>

\* all_stats[name] = entry
Recorded(all_stats, name, entry) ==
    [ n \in (DOMAIN all_stats) \cup {name} |->
        IF n = name THEN entry ELSE all_stats[n] ]

\* the loop without its try block: the exception leaves run_all_pipelines
RunPipelineUncaught(raises) ==
    /\ pc = "pipelines"
    /\ fetch.loop <= Len(script)
    /\ raises => Cardinality({ i \in DOMAIN hist.ran : hist.ran[i].raised }) < MaxFailures
    /\ hist' = [hist EXCEPT !.ran = Append(@, [ name |-> script[fetch.loop],
                                                raised |-> raises ])]
    /\ snap' = IF raises THEN snap ELSE Recorded(snap, script[fetch.loop], "stats")
    /\ pc' = IF raises THEN "raised" ELSE pc
    /\ fetch' = IF raises THEN fetch ELSE [fetch EXCEPT !.loop = @ + 1]
    /\ UNCHANGED << mongo, kind, stats, db, client, clock, cur, outcome, script, wk >>

\* one iteration of the loop over `ordered`: the pipeline's run function
\* returns its statistics or raises an Exception, which is recorded
RunPipeline(raises) ==
    /\ pc = "pipelines"
    /\ fetch.loop <= Len(script)
    /\ raises => Cardinality({ i \in DOMAIN hist.ran : hist.ran[i].raised }) < MaxFailures
    /\ hist' = [hist EXCEPT !.ran = Append(@, [ name |-> script[fetch.loop],
                                                raised |-> raises ])]
    /\ snap' = Recorded(snap, script[fetch.loop], IF raises THEN "error" ELSE "stats")
    /\ fetch' = [fetch EXCEPT !.loop = @ + 1]
    /\ UNCHANGED << mongo, kind, pc, stats, db, client, clock, cur, outcome, script, wk >>

\* the loop has ended: the summary is printed
Summary ==
    /\ pc = "pipelines"
    /\ fetch.loop > Len(script)
    /\ pc' = "returned"
    /\ outcome' = "summary"
    /\ UNCHANGED << mongo, kind, stats, db, client, clock, fetch, cur, hist, script,
                    snap, wk >>

\* main of sync_all.py: run_all_pipelines has returned, sys.exit(0)
MainExit ==
    /\ pc = "returned"
    /\ pc' = "exited"
    /\ outcome' = "exit_0"
    /\ UNCHANGED << mongo, kind, stats, db, client, clock, fetch, cur, hist, script,
                    snap, wk >>

OrchNext ==
    \/ ResolveOrder
    \/ \E raises \in BOOLEAN : RunPipeline(raises)
    \/ Summary
    \/ MainExit

OrchSpec == OrchInit /\ [][OrchNext]_vars

(* ------------- two member syncs loading at the same time --------------- *)
\* the records two concurrent syncs of one state load
ConcurrentRaw == { r \in RawMembers("UT") : ~members_transform_raises(r) }

\* both syncs are about to call load, each with its record
ConcInit ==
    /\ mongo = EmptyMongo
    /\ kind = "members"
    /\ pc = "loading"
    /\ stats = ZeroStats
    /\ db = TRUE
    /\ client = "open"
    /\ clock = 1
    /\ fetch = NoFetch
    /\ cur = NoItem
    /\ outcome = "none"
    /\ hist = NoHist
    /\ script = << >>
    /\ snap = EmptyMongo
    /\ wk \in [ 1..2 -> [ pc : {"update_many"}, raw : ConcurrentRaw ] ]

\* the record worker w loads
LoadOf(w) == members_transform(wk[w].raw, clock)

\* load of worker w: await collection.update_many(...)
LoadInvalidate(w) ==
    /\ wk[w].pc = "update_many"
    /\ mongo' = [mongo EXCEPT !.politicians = InvalidateSeat(@, LoadOf(w), clock)]
    /\ wk' = [wk EXCEPT ![w].pc = "update_one"]
    /\ UNCHANGED << kind, pc, stats, db, client, clock, fetch, cur, outcome, hist,
                    script, snap >>

\* load of worker w: await collection.update_one(..., upsert=True)
LoadUpsert(w) ==
    /\ wk[w].pc = "update_one"
    /\ mongo' = [mongo EXCEPT !.politicians = UpsertPolitician(@, LoadOf(w), clock)]
    /\ wk' = [wk EXCEPT ![w].pc = "returned"]
    /\ UNCHANGED << kind, pc, stats, db, client, clock, fetch, cur, outcome, hist,
                    script, snap >>

ConcNext ==
    \/ \E w \in 1..2 : LoadInvalidate(w)
    \/ \E w \in 1..2 : LoadUpsert(w)

ConcSpec == ConcInit /\ [][ConcNext]_vars

(* ===================== the seat invariant (load) ======================= *)
\* the politician records that hold a House seat as serving
Serving(coll, state, district) ==
    { d \in coll : /\ d.chamber = "house"
                   /\ d.in_office = TRUE
                   /\ d.state = state
                   /\ d.district = district }

\* C1: the store never holds two politician records with chamber=house,
\* in_office=true and the same (state, district)
OneOccupantPerSeat ==
    \A d \in mongo.politicians, e \in mongo.politicians :
        ( /\ d.chamber = "house" /\ e.chamber = "house"
          /\ d.in_office /\ e.in_office
          /\ d.state = e.state /\ d.district = e.district ) => d = e

\* the step is a process_item of the member sync whose load returned
MemberLoaded ==
    /\ pc = "item"
    /\ kind = "members"
    /\ pc' = "fetch"
    /\ stats'.errors = stats.errors

\* C2: a load of a House record for seat (X, N) sets in_office=false on
\* exactly the other records that were chamber=house, state=X, district=N
\* and in_office=true before the call, and changes in_office on no other
\* record (no other seat, no Senate record)
LoadFlipsExactlyTheSeat ==
    [][ (MemberLoaded /\ members_transform(cur, clock).chamber = "house") =>
          LET P == members_transform(cur, clock)
              flips == Serving(mongo.politicians, P.state, P.district)
          IN  \A d \in mongo.politicians :
                 d.bioguide_id # P.bioguide_id =>
                    /\ \E e \in mongo'.politicians : e.bioguide_id = d.bioguide_id
                    /\ \A e \in mongo'.politicians :
                          e.bioguide_id = d.bioguide_id =>
                             e.in_office = (d.in_office /\ d \notin flips) ]_vars

\* a House load has just flagged the previous occupant of its seat
SeatFlipped ==
    /\ kind = "members"
    /\ pc = "fetch"
    /\ hist.last # NoItem
    /\ hist.flipped # {}
    /\ \E d \in mongo.politicians : d.bioguide_id \in hist.flipped /\ ~d.in_office

\* C4: the invalidating update never matches the incoming bioguide_id and
\* precedes the upsert, so after load(P) P is stored with in_office=true;
\* loading the same House record again flips no record
LoadNeverSelfInvalidates ==
    (kind = "members" /\ hist.last # NoItem) =>
        /\ hist.last.bioguide_id \notin hist.flipped
        /\ \E d \in mongo.politicians :
               d.bioguide_id = hist.last.bioguide_id /\ d.in_office
        /\ \A d \in mongo.politicians :
               d.bioguide_id = hist.last.bioguide_id => d.in_office
        /\ (hist.again /\ hist.last.chamber = "house") => hist.flipped = {}

\* the same House record has been loaded twice in a row
SameRecordLoadedAgain ==
    /\ kind = "members"
    /\ hist.last # NoItem
    /\ hist.again
    /\ hist.last.chamber = "house"
    /\ hist.last.state \in STATE_CODE_TO_NAME

(* ===================== error handling of a run ======================== *)
\* the run has ended and only transform exceptions occurred in it
OnlyTransformErrors ==
    /\ pc = "done"
    /\ outcome = "returned"
    /\ hist.lerr = 0
    /\ hist.perr = 0
    /\ ~hist.ferr

\* C5: a run whose fetcher yields n items of which exactly k raise in
\* transform returns processed=n and errors=k, and the other n-k items are
\* each passed to load
TransformErrorsIsolated ==
    OnlyTransformErrors =>
        /\ stats.processed = hist.yielded
        /\ stats.errors = hist.terr
        /\ hist.loads = hist.yielded - hist.terr

\* C6: an exception raised by a store write while an item is loaded (the
\* position writes of the votes ingester included) is counted as one error
\* and does not end the run
WriteErrorsCounted ==
    /\ hist.cause # "item_error"
    /\ stats.errors - hist.stats0.errors >= hist.terr + hist.lerr + hist.perr

\* C8: every run of a constructed ingester returns the statistics record,
\* whatever happens during fetching and item processing
RunReturnsStats ==
    (pc = "done" /\ hist.cause \notin {"interrupt", "connect_error"}) =>
        outcome = "returned"

\* C9: after a failing page request of a paginated fetcher nothing more is
\* yielded (so nothing stored changes) and the run returns its statistics
PageFailureStopsFetch ==
    (pc = "done" /\ hist.failAt # NoneInt /\ hist.cause # "interrupt") =>
        /\ outcome = "returned"
        /\ hist.yielded = hist.failAt

(* ========================= cleanup of a run =========================== *)
\* completed_at is stamped before disconnect is called, and a finished run
\* has stamped it and has closed the client it opened
CleanupDone ==
    /\ pc \in {"disconnect", "done"} =>
           (stats.started_at = clock /\ stats.completed_at = clock)
    /\ pc = "done" => client # "open"

\* the interrupt and the cleanup leave the stored records alone
CleanupKeepsRecords ==
    [][ ( \/ pc \in {"finally", "disconnect"}
          \/ (hist.cause # "interrupt" /\ hist'.cause = "interrupt") )
        => mongo' = mongo ]_vars

\* C7: every run that has set started_at eventually sets completed_at and
\* then calls disconnect, however the try block ends (exhaustion, an
\* exception of connect or of the fetcher, an interrupt in the loop);
\* the records upserted before an interrupt stay in the store
CleanupAlwaysRuns ==
    /\ []CleanupDone
    /\ CleanupKeepsRecords
    /\ (pc = "connect") ~> (pc = "done")

\* an interrupted run has finished after it had loaded an item
InterruptedAfterLoad ==
    /\ pc = "done"
    /\ hist.cause = "interrupt"
    /\ hist.loads > 0
    /\ stats.completed_at = clock
    /\ mongo # EmptyMongo

\* C3: when two syncs load two different bioguide_ids for the same House
\* seat concurrently, every interleaving of their update_many and
\* update_one ends with exactly one in_office=true record for the seat
ConcurrentLoadsOneOccupant ==
    ( /\ wk[1].pc = "returned" /\ wk[2].pc = "returned"
      /\ LoadOf(1).chamber = "house" /\ LoadOf(2).chamber = "house"
      /\ LoadOf(1).bioguide_id # LoadOf(2).bioguide_id
      /\ LoadOf(1).state = LoadOf(2).state
      /\ LoadOf(1).district = LoadOf(2).district )
    => Cardinality(Serving(mongo.politicians, normalize_state(LoadOf(1).state),
                           LoadOf(1).district)) = 1

(* ========================= syncing twice ============================== *)
Collections == {"politicians", "legislation", "votes", "politician_votes",
                "contributions"}

\* the natural key of a record of collection c
KeyOf(c, d) ==
    CASE c = "politicians" -> << d.bioguide_id >>
      [] c = "legislation" -> << d.bill_id >>
      [] c = "votes" -> << d.vote_id >>
      [] c = "politician_votes" -> << d.vote_id, d.bioguide_id >>
      [] c = "contributions" -> << d.id >>

\* a record without its last_updated stamp
WithoutStamp(d) == [ f \in (DOMAIN d) \ {"last_updated"} |-> d[f] ]

\* C10: after the same ingester class has synced the same items twice, from
\* any store, the second sync reports inserted=0, the natural keys stored
\* are those stored after the first sync, and every field but last_updated
\* has the value it had after the first sync
SecondSyncChangesNothing ==
    pc = "synced" =>
        /\ stats.inserted = 0
        /\ \A c \in Collections :
              /\ { KeyOf(c, d) : d \in mongo[c] } = { KeyOf(c, d) : d \in snap[c] }
              /\ { WithoutStamp(d) : d \in mongo[c] } = { WithoutStamp(d) : d \in snap[c] }
              /\ Cardinality(mongo[c]) = Cardinality(snap[c])

\* two items were synced twice into a store that held a record before, and
\* the second sync has rewritten them
SyncedTwiceOverRecords ==
    /\ pc = "synced"
    /\ Len(script) >= 2
    /\ stats.updated >= 2
    /\ mongo # snap
    /\ Cardinality(mongo[IF kind = "members" THEN "politicians" ELSE "legislation"]) >= 2

(* ===================== enrichment (contact info) ====================== *)
\* the bioguide ids of the politician records of database m
PoliticianIds(m) == { d.bioguide_id : d \in m.politicians }

\* the step is process_item of the contact sync on an item that transforms
\* and whose bioguide id has no politician record
ContactItemWithoutRecord ==
    /\ kind = "contact"
    /\ pc = "item"
    /\ pc' = "fetch"
    /\ ~contact_transform_raises(cur)
    /\ cur.bioguide \notin PoliticianIds(mongo)

\* C11: a contact-info item whose bioguide_id has no politician record
\* writes nothing and counts neither as inserted nor as updated; during a
\* contact-info run the set of stored politician bioguide_ids never changes
\* and the inserted counter stays 0
EnrichmentNeverCreates ==
    [][ kind = "contact" =>
          /\ PoliticianIds(mongo') = PoliticianIds(mongo)
          /\ stats'.inserted = 0
          /\ ContactItemWithoutRecord =>
                 /\ mongo' = mongo
                 /\ stats'.inserted = stats.inserted
                 /\ stats'.updated = stats.updated ]_vars

\* a contact sync has processed its items over a store that holds only
\* politician 1, updating one record and leaving the other item uncounted
ContactItemIgnored ==
    /\ kind = "contact"
    /\ pc = "fetch"
    /\ PoliticianIds(mongo) = {1}
    /\ hist.loads = 2
    /\ stats.processed = 2
    /\ stats.updated = 1
    /\ stats.errors = 0
    /\ stats.inserted = 0

(* ========================= Senate loads =============================== *)
\* the step is process_item of the member sync on a record that transforms
\* to a senator (load is called; it returns or raises)
SenateLoad ==
    /\ kind = "members"
    /\ pc = "item"
    /\ hist'.loads = hist.loads + 1
    /\ members_transform(cur, clock).chamber = "senate"

\* C12: loading a politician whose chamber is senate changes no record other
\* than the one with the incoming bioguide_id; no other senator of the state
\* and no House record is flagged out of office, whatever the store holds
SenateLoadChangesOnlyItsRecord ==
    [][ SenateLoad =>
          LET id == members_transform(cur, clock).bioguide_id
          IN  /\ \A d \in mongo.politicians :
                     d.bioguide_id # id => d \in mongo'.politicians
              /\ \A e \in mongo'.politicians :
                     e.bioguide_id # id => e \in mongo.politicians
              /\ \A c \in DOMAIN mongo : c # "politicians" => mongo'[c] = mongo[c] ]_vars

\* a senator has been loaded while the store holds another serving senator
\* of the same state and a serving representative of its at-large seat
SenatorLoadedBesideOthers ==
    /\ kind = "members"
    /\ hist.last # NoItem
    /\ hist.last.chamber = "senate"
    /\ \E d \in mongo.politicians :
          /\ d.bioguide_id # hist.last.bioguide_id
          /\ d.state = hist.last.state
          /\ d.in_office
          /\ d.chamber = "house"
          /\ d.district = NoneInt

(* ================== normalised fields of stored records =============== *)
\* the fixed state set: the codes of US_STATES
StateCodes == { US_STATES[i] : i \in DOMAIN US_STATES }

\* the single-letter party codes the normaliser knows
PartyCodes == { PARTY_MAPPINGS[p] : p \in DOMAIN PARTY_MAPPINGS }

\* C13: every politician record the legislator sync has written carries a
\* state that is a 2-letter code of the fixed state set (never null), a
\* party that is a single known letter and a chamber of {senate, house},
\* for every state code the member fetcher iterates
StoredPoliticiansNormalized ==
    \A d \in mongo.politicians :
        /\ d.state # NoneStr
        /\ Len(d.state) = 2
        /\ d.state \in StateCodes
        /\ d.party \in PartyCodes
        /\ d.chamber \in {"senate", "house"}

(* ===================== the normalisers' contract ====================== *)
\* the values normaliser fn documents as its results
Returns(fn, v) ==
    CASE fn = "normalize_state" -> v \in STATE_CODE_TO_NAME \cup {NoneStr}
      [] fn = "normalize_party" -> v \in PartyCodes
      [] fn = "normalize_chamber" -> v \in {"senate", "house", NoneStr}
      [] fn = "normalize_bill_status" -> v \in STRING
      [] OTHER -> (DOMAIN cur) \subseteq (DOMAIN v)

\* C14: each normaliser and each record wrapper returns a value for every
\* string-or-null input, and applied to its own output it returns that
\* output unchanged
NormalizersIdempotent ==
    /\ pc \in {"once", "twice"} => Returns(kind, outcome)
    /\ pc = "twice" => outcome = snap

\* normalize_politician has returned for the dict cur
PoliticianNormalized == kind = "normalize_politician" /\ pc = "once"

\* the keys normalize_politician rewrites
NormalizedKeys == {"state", "party", "chamber"}

\* C15 as claimed: the record normalize_politician returns differs from its
\* input only in the values of state, party and chamber and in a
\* last_updated key added when absent; no other key is added or changed
OnlyLastUpdatedAdded ==
    PoliticianNormalized =>
        /\ DOMAIN outcome = (DOMAIN cur) \cup {"last_updated"}
        /\ \A k \in (DOMAIN cur) \ NormalizedKeys : outcome[k] = cur[k]

\* C15: the record normalize_politician returns differs from its input only
\* in the values of state, party and chamber and in the keys last_updated
\* (the current time) and in_office (true) added when absent; no other key
\* is added or changed, and the input dict is left as it was
OnlyDefaultsAdded ==
    /\ [](PoliticianNormalized =>
            /\ DOMAIN outcome = (DOMAIN cur) \cup {"last_updated", "in_office"}
            /\ \A k \in (DOMAIN cur) \ NormalizedKeys : outcome[k] = cur[k]
            /\ "last_updated" \notin DOMAIN cur => outcome.last_updated = clock
            /\ "in_office" \notin DOMAIN cur => outcome.in_office = TRUE)
    /\ [][kind = "normalize_politician" => cur' = cur]_vars

\* a dict with a name and a state name, without last_updated and in_office,
\* has been normalised
PoliticianDefaultsAdded ==
    /\ PoliticianNormalized
    /\ DOMAIN cur = {"bioguide_id", "full_name", "state"}
    /\ cur.state = "Utah"
    /\ outcome.state = "UT"
    /\ outcome.full_name = cur.full_name
    /\ outcome.in_office = TRUE

(* ========================= the orchestrator =========================== *)
\* the position of name in list (0: absent)
PositionIn(list, name) ==
    IF name \in Elements(list) THEN CHOOSE i \in DOMAIN list : list[i] = name ELSE 0

\* C16: resolve_dependencies(S) returns a list without duplicates that holds
\* every name of S and every dependency, direct or not, of its names, and
\* in which each pipeline comes after all the pipelines it depends on
ResolvedInDependencyOrder ==
    pc \in {"pipelines", "returned"} =>
        /\ \A i, j \in DOMAIN script : script[i] = script[j] => i = j
        /\ Elements(pipelines_to_run(cur)) \subseteq Elements(script)
        /\ \A n \in Elements(script) : \A d \in Elements(depends_on(n)) :
              /\ d \in Elements(script)
              /\ PositionIn(script, d) < PositionIn(script, n)

\* votes was asked for before its dependencies and runs after them
DependenciesPulledFirst ==
    /\ pc = "pipelines"
    /\ cur.only = << "votes", "bills" >>
    /\ script = << "members", "bills", "votes" >>

\* the entry all_stats holds for a pipeline whose run function was called
EntryOf(call) == IF call.raised THEN "error" ELSE "stats"

\* C17: when a pipeline's run function raises, an error entry is recorded
\* for it and every later pipeline of the resolved order is still run, once
\* and in order; when the loop ends every pipeline of the resolved order
\* has exactly one entry, its statistics or its error
FailureDoesNotStopLaterPipelines ==
    /\ pc # "raised"
    /\ pc \in {"pipelines", "returned"} =>
          /\ Len(hist.ran) <= Len(script)
          /\ \A i \in DOMAIN hist.ran :
                /\ hist.ran[i].name = script[i]
                /\ snap[script[i]] = EntryOf(hist.ran[i])
          /\ DOMAIN snap = { script[i] : i \in DOMAIN hist.ran }
    /\ (pc = "returned" /\ outcome = "summary") =>
          /\ Len(hist.ran) = Len(script)
          /\ DOMAIN snap = Elements(script)

\* the first pipeline of four raised and the three after it ran, the last
\* of them raising too
LaterPipelinesRanAfterFailure ==
    /\ pc = "returned"
    /\ outcome = "summary"
    /\ Len(script) = 4
    /\ hist.ran[1].raised
    /\ ~hist.ran[2].raised
    /\ ~hist.ran[3].raised
    /\ hist.ran[4].raised

\* C18: a pipeline named in the skip list of run_all_pipelines is never
\* executed by that call, whichever other pipelines are selected
SkippedPipelineNeverRuns ==
    \A i \in DOMAIN hist.ran : hist.ran[i].name \notin cur.skip

(* C19: in every fetcher, a rate-limit delay separates any two consecutive
   HTTP requests of one run: no request follows another without a sleep
   between them *)
DelayBetweenConsecutiveRequests == hist.pace # "burst"

(* C20: a run streams and loads only between its connect and its
   disconnect: while run() is in its fetch loop or processing an item, of a
   first run or of a later run on the same instance, the connection it
   works on is open *)
ConnectionOpenWhileStreaming ==
    pc \in {"fetch", "item"} => (db /\ client = "open")

(* C21: whatever roll calls have been ingested, re-ingested ones and feeds
   that list a member twice with different positions included, the store
   holds at most one PoliticianVote per (vote_id, bioguide_id) *)
OnePositionPerMemberAndVote ==
    \A d \in mongo.politician_votes : \A e \in mongo.politician_votes :
        (d.vote_id = e.vote_id /\ d.bioguide_id = e.bioguide_id) => d = e

\* a re-ingested roll call whose feed lists one member twice, with different
\* positions, has been saved over that member's stored position
MemberListedTwiceSaved ==
    /\ hist.yielded >= 2
    /\ pc = "item"
    /\ cur # NoItem
    /\ Len(cur.memberVotes) = 2
    /\ cur.memberVotes[1].bioguideId = cur.memberVotes[2].bioguideId
    /\ cur.memberVotes[1].voteCast # cur.memberVotes[2].voteCast
    /\ \E d \in mongo.politician_votes :
          /\ d.vote_id = vote_id_of(cur)
          /\ d.bioguide_id = cur.memberVotes[2].bioguideId
          /\ d.position = cur.memberVotes[2].voteCast
    /\ Cardinality(mongo.politician_votes) >= 2

(* C22: distinct roll calls never share a vote_id: a stored Vote is
   overwritten only by a re-ingest of its own roll call, so the record under
   a vote_id keeps the session of the roll call that created it *)
VoteOverwrittenOnlyByItsRollCall ==
    [][\A d \in mongo.votes : \A e \in mongo'.votes :
          e.vote_id = d.vote_id => e.session = d.session]_vars

\* the positions a PoliticianVote may carry
CanonicalPositions == {"Yea", "Aye", "Nay", "Present", "Not Voting"}

(* C23: every PoliticianVote the votes ingester has written carries a
   canonical position: the cast read from the clerk's XML is mapped before
   the write *)
StoredPositionsCanonical ==
    \A d \in mongo.politician_votes : d.position \in CanonicalPositions

(* C24: every politician the member transform produces has a district
   exactly when its chamber is house, at-large members and members without
   a term list included *)
DistrictExactlyForHouse ==
    hist.last # NoItem =>
        (hist.last.district # NoneInt <=> hist.last.chamber = "house")

(* C25: in a member sync with a chamber filter and/or a state filter, every
   politician record the run has loaded has that chamber and that state, and
   member lists are requested for that state only *)
FilteredSyncStaysInScope ==
    /\ snap.chamber # NoneStr =>
          \A d \in mongo.politicians : d.chamber = Lower(snap.chamber)
    /\ snap.state # NoneStr =>
          /\ \A d \in mongo.politicians : d.state = Upper(snap.state)
          /\ \A i \in DOMAIN script : script[i] = Upper(snap.state)

\* the offsets requested so far are 0, L, 2L, ... in that order, no page is
\* requested after the first empty or missing one, and a positive
\* max_bills bounds the bills yielded
BillPagesInOrder ==
    /\ \A i \in DOMAIN script : script[i] = (i - 1) * snap.limit_per_request
    /\ Len(script) <= snap.pages + 1
    /\ (Len(script) = snap.pages + 1) => fetch.stage = "ended"
    /\ snap.max_bills > 0 => hist.yielded <= snap.max_bills

(* C26: the bill fetcher requests the offsets 0, L, 2L, ... in order, stops
   at the first empty page or 404, yields at most max_bills bills when that
   is positive, and its loop ends when the source holds finitely many
   non-empty pages *)
BillFetchOrderedBoundedAndEnds ==
    /\ []BillPagesInOrder
    /\ <>(pc = "done")

\* the limit was reached in the middle of the second page
BillLimitReachedOnSecondPage ==
    /\ pc = "done"
    /\ snap.limit_per_request = 2
    /\ snap.max_bills = 3
    /\ script = << 0, 2 >>
    /\ hist.yielded = 3

(* C27: a sync entry point exits with code 0 only if no error occurred in
   the runs it performed: after a pipeline failure the exit code is not 0 *)
ExitZeroOnlyWithoutFailure ==
    (pc = "exited" /\ outcome = "exit_0") =>
        /\ \A i \in DOMAIN hist.ran : ~hist.ran[i].raised
        /\ \A n \in DOMAIN snap : snap[n] # "error"

(* C28: the statistics a run returns count only the items of that run, so
   the records sync_votes adds up (the house run, then the senate run on the
   same ingester) count every processed vote once *)
ReturnedStatsCountThisRunOnly ==
    (pc = "done" /\ outcome = "returned") =>
        /\ stats.processed = hist.yielded
        /\ stats.inserted + stats.updated <= hist.loads

\* inserted + updated + errors of a statistics record
Outcomes(st) == st.inserted + st.updated + st.errors

\* a step in which the base process_item has been called and has returned
\* (the contact ingester overrides it without calling it)
BaseProcessItemStep ==
    /\ kind \in {"members", "bills", "votes", "fec"}
    /\ pc = "item"
    /\ hist'.terr + hist'.loads = hist.terr + hist.loads + 1

\* processed and exactly one of inserted, updated, errors go up by one
CountsOneOutcome ==
    /\ stats'.processed = stats.processed + 1
    /\ Outcomes(stats') = Outcomes(stats) + 1
    /\ stats'.inserted >= stats.inserted
    /\ stats'.updated >= stats.updated
    /\ stats'.errors >= stats.errors

\* no fetch-level error is in the counters: none counted by the fetcher in
\* this run, and the counters the run started from were balanced
NoFetchLevelError ==
    /\ ~hist.ferr
    /\ hist.stats0.processed = Outcomes(hist.stats0)

\* the counters of an ingester that uses the base process_item
ProcessedBalanced ==
    kind \in {"members", "bills", "votes", "fec"} =>
        /\ stats.inserted + stats.updated <= stats.processed
        /\ NoFetchLevelError => stats.processed = Outcomes(stats)

(* C29: each call of the base process_item adds one to processed and one to
   exactly one of inserted, updated, errors; so inserted + updated never
   exceeds processed, and processed = inserted + updated + errors as long
   as the fetcher has counted no error of its own *)
ProcessItemCountsOneOutcome ==
    /\ [][BaseProcessItemStep => CountsOneOutcome]_vars
    /\ []ProcessedBalanced

\* a run has counted an insert, and then an item that failed
InsertThenErrorCounted ==
    /\ kind = "members"
    /\ pc = "fetch"
    /\ stats.processed = 2
    /\ stats.inserted = 1
    /\ stats.errors = 1
    /\ hist.lerr = 1
    /\ ~hist.ferr

(* C30: when the member sync loads a politician that is already stored, the
   committees added by the committee pipeline and the office added by the
   contact-info enrichment keep their values (the incoming record carries
   none) *)
ReloadKeepsEnrichment ==
    [][ (kind' = "members" /\ hist'.yielded = hist.yielded + 1) =>
           \A d \in mongo.politicians : \A e \in mongo'.politicians :
               e.bioguide_id = d.bioguide_id =>
                   /\ e.committees = d.committees
                   /\ e.office = d.office ]_vars

====
